---------------------------- MODULE Spec2Model ----------------------------
(***************************************************************************)
(* A model of the planning and agent core of AgenticAI-RAG:                *)
(*   - ReActPlanner (src/src/planning/react_planner.py)                    *)
(*   - CoTPlanner   (src/src/planning/cot_planner.py)                      *)
(*   - BaseAgent and its variants (src/src/agents/*.py)                    *)
(*   - ShortTermMemory / LongTermMemory (src/src/memory/*.py)              *)
(*                                                                         *)
(* Text is a sequence of tokens.  A token is either one of the markers the *)
(* parsers look for ("Final Answer:", "Thought:", ...), a run of white     *)
(* space, or a word that holds none of the markers.  Python's None is the  *)
(* value None; a call that raises yields the record Raise(msg).            *)
(***************************************************************************)
EXTENDS Integers, Sequences, FiniteSets, TLC

VARIABLES
    \* ---- the planner object (ReActPlanner or CoTPlanner)
    max_iterations,     \* ReActPlanner.max_iterations / CoTPlanner.max_steps
    enable_reflection,  \* CoTPlanner.enable_reflection
    planner_tools,      \* ReActPlanner.tools      (a list of tool dicts)
    tool_map,           \* ReActPlanner.tool_map   (name -> tool dict)
    \* ---- one plan() call
    pc,                 \* where the running call is
    steps,              \* plan()'s local list: steps / reasoning_steps
    iteration,          \* the loop variable: iteration / step_num
    prompt,             \* CoTPlanner.plan's local prompt (what it lists)
    plan,               \* the dict plan() returned, or None
    llm_log,            \* every model behaviour llm_call showed, in order
    tool_log,           \* every call of a tool function, in order
    \* ---- the agent object
    agent,              \* the constructor's settings of the agent
    tools,              \* BaseAgent.tools (a list of tool schemas)
    tool_functions,     \* BaseAgent.tool_functions (name -> function)
    messages,           \* ShortTermMemory.messages
    long_term,          \* the entries LongTermMemory stored
    request,            \* the process() call under way or just returned
    response,           \* what the last process() call returned, or None
    raised,             \* whether a call let an exception escape
    \* ---- the aggregator object and its process() call
    snowflake_agent,    \* AggregatorAgent.snowflake_agent is not None
    selected,           \* the agents _select_agents chose, in call order
    agent_responses,    \* process()'s local dict: agent name -> response
    calls,              \* every call of a sub-agent's process, in order
    \* ---- the orchestrator object
    orchestrator,       \* its settings and its lazily built agents
    ran                 \* what the running process_query call did, in order

vars == << max_iterations, enable_reflection, planner_tools, tool_map,
           pc, steps, iteration, prompt, plan, llm_log, tool_log,
           agent, tools, tool_functions, messages, long_term,
           request, response, raised,
           snowflake_agent, selected, agent_responses, calls,
           orchestrator, ran >>

plannerVars == << max_iterations, enable_reflection, planner_tools, tool_map >>
callVars    == << steps, iteration, prompt, plan, llm_log, tool_log >>
agentVars   == << agent, tools, tool_functions, messages, long_term,
                  request, response >>
aggVars     == << snowflake_agent, selected, agent_responses, calls >>
orchVars    == << orchestrator, ran >>
teamVars    == << aggVars, orchVars >>

-----------------------------------------------------------------------------
(* Bounds of the model *)

\* the largest max_iterations / max_steps a planner is built with
MaxIter == 2
\* the largest max_steps a CoTPlanner is built with
MaxSteps == 5
\* the largest bound of the planner an agent runs
MaxAgentIter == 2
\* the most process() calls made on one agent
MaxRequests == 2
\* the most add_tool calls made on one agent or planner
MaxAddTool == 2
\* ShortTermMemory.max_messages and max_tokens (settings of the deployment)
MaxMessages == 3
MaxTokens == 6

-----------------------------------------------------------------------------
(* Python values *)

\* Every text-or-None value is a sequence of tokens, so that TLC can compare
\* any two of them; None is a sequence no text equals.
None == << "<None>" >>

\* a call that raised, with its str(e)
Raise(msg) == << "<raise>" >> \o msg
IsRaise(v) == v # << >> /\ v[1] = "<raise>"
ErrText(v) == Tail(v)

\* "no dict": the value of a variable that holds no plan / response yet
Nil == [nil |-> TRUE]

\* dict.get(key, default)
Get(d, key, default) == IF key \in DOMAIN d THEN d[key] ELSE default

-----------------------------------------------------------------------------
(* Tokens *)

FA == "Final Answer:"
TH == "Thought:"
AC == "Action:"
AI == "Action Input:"
OB == "Observation:"
CN == "Conclusion"
CO == ":"
ST == "Step"
WS == " "

-----------------------------------------------------------------------------
(* str methods on token sequences *)

\* s[i:] for a 1-based i
Drop(s, n) == SubSeq(s, n + 1, Len(s))
Take(s, n) == SubSeq(s, 1, n)

RECURSIVE LStrip(_)
LStrip(s) == IF s # << >> /\ Head(s) = WS THEN LStrip(Tail(s)) ELSE s

RECURSIVE RStrip(_)
RStrip(s) ==
    IF s # << >> /\ s[Len(s)] = WS THEN RStrip(Take(s, Len(s) - 1)) ELSE s

\* str.strip()
Strip(s) == RStrip(LStrip(s))

\* str.startswith(p), p a token sequence
StartsWith(s, p) == Len(s) >= Len(p) /\ Take(s, Len(p)) = p

\* the least index at which p occurs in s, 0 if none
Find(s, p) ==
    LET hits == { i \in 1..(Len(s) - Len(p) + 1) :
                    SubSeq(s, i, i + Len(p) - 1) = p }
    IN  IF hits = {} THEN 0 ELSE CHOOSE i \in hits : \A j \in hits : i <= j

\* p in s
Contains(s, p) == Find(s, p) # 0

\* str.split(p): the pieces of s between the occurrences of p
RECURSIVE Split(_, _)
Split(s, p) ==
    LET i == Find(s, p)
    IN  IF i = 0 THEN << s >>
        ELSE << Take(s, i - 1) >> \o Split(Drop(s, i + Len(p) - 1), p)

\* str.split(p, 1): at most two pieces
Split1(s, p) ==
    LET i == Find(s, p)
    IN  IF i = 0 THEN << s >>
        ELSE << Take(s, i - 1), Drop(s, i + Len(p) - 1) >>

\* str.replace(p, ""): every occurrence of p removed
RECURSIVE Remove(_, _)
Remove(s, p) ==
    LET i == Find(s, p)
    IN  IF i = 0 THEN s
        ELSE Take(s, i - 1) \o Remove(Drop(s, i + Len(p) - 1), p)

\* list[-n:]
LastN(s, n) == IF Len(s) <= n THEN s ELSE SubSeq(s, Len(s) - n + 1, Len(s))

-----------------------------------------------------------------------------
(* ReActPlanner._parse_react_response *)

\* response.split(p)[1]: the piece after the first occurrence of p
Piece1(s, p) == Split(s, p)[2]
\* response.split(p)[0]: the piece before the first occurrence of p
Piece0(s, p) == Split(s, p)[1]

_parse_react_response(resp) ==
    LET r == Strip(resp)
        thought_part ==
            IF Contains(r, << TH >>)
            THEN Strip(Piece0(Piece1(r, << TH >>), << AC >>))
            ELSE << >>
        action_line ==
            IF Contains(r, << AC >>)
            THEN Strip(Piece0(Piece1(r, << AC >>), << OB >>))
            ELSE << >>
        has_input == Contains(action_line, << AI >>)
        action_name ==
            IF ~ Contains(r, << AC >>) THEN << >>
            ELSE IF has_input THEN Strip(Piece0(action_line, << AI >>))
            ELSE action_line
        action_input ==
            IF Contains(r, << AC >>) /\ has_input
            THEN Strip(Piece1(action_line, << AI >>))
            ELSE << >>
    IN  IF StartsWith(r, << FA >>)
        THEN [type |-> "final_answer", content |-> Strip(Remove(r, << FA >>))]
        ELSE IF action_name # << >>
        THEN [type |-> "action", thought |-> thought_part,
              action |-> action_name, input |-> action_input]
        ELSE [type |-> "thought",
              content |-> IF thought_part # << >> THEN thought_part ELSE r]

-----------------------------------------------------------------------------
(* Tools.  A tool dict is a record with the key "name" and, when the dict  *)
(* carries an implementation, the key "function".  A function is a record  *)
(* of what a call of it does: the keyword parameters it requires and      *)
(* accepts, whether it is a coroutine function, and whether its body       *)
(* raises.                                                                 *)

\* Calculator.get_tool_schema(), WebSearch.get_tool_schema(), ...: no schema
\* of the repository carries the key "function"
Schema(name) == [name |-> name]

Function(id, required, optional, is_async, fails) ==
    [id |-> id, required |-> required, optional |-> optional,
     is_async |-> is_async, fails |-> fails]

\* lambda expression: self.calculator.calculate(expression)
CalculatorFn == Function("calculate", {"expression"}, {}, FALSE, FALSE)
\* async def web_search_tool(query, max_results=5)
WebSearchFn  == Function("web_search", {"query"}, {"max_results"}, TRUE, FALSE)
\* def db_query_tool(sql, limit=100)
DbQueryFn    == Function("db_query", {"sql"}, {"limit"}, FALSE, FALSE)
\* a function whose body raises
FailingFn    == Function("failing", {"query"}, {}, FALSE, TRUE)
\* a second function for a name already registered
CalculatorFn2 == Function("calculate2", {"expression"}, {}, FALSE, FALSE)

\* a tool dict that carries its implementation
ToolWith(name, fn) == [name |-> name, function |-> fn]

\* JSON texts an Action Input may hold, each one token
J_EXPR  == "{\"expression\": \"1+1\"}"
J_QUERY == "{\"query\": \"q\"}"
J_LIST  == "[1]"

\* json.loads(text): the keys of the object the text holds, or what went wrong
json_loads(text) ==
    IF text = << J_EXPR >> THEN [kind |-> "object", keys |-> {"expression"}]
    ELSE IF text = << J_QUERY >> THEN [kind |-> "object", keys |-> {"query"}]
    ELSE IF text = << J_LIST >> THEN [kind |-> "list", keys |-> {}]
    ELSE [kind |-> "error", keys |-> {}]

\* params of ReActPlanner._execute_action (lines 233-236)
ActionParams(action_input) ==
    IF action_input = << >> THEN [kind |-> "object", keys |-> {}]
    ELSE IF json_loads(action_input).kind = "error"
    THEN [kind |-> "object", keys |-> {"query"}]
    ELSE json_loads(action_input)

\* tool_func(**params): whether Python binds the arguments
Binds(fn, params) ==
    /\ params.kind = "object"
    /\ fn.required \subseteq params.keys
    /\ params.keys \subseteq fn.required \cup fn.optional

\* whether the call runs the function's body: a coroutine function only
\* builds its coroutine object
RunsBody(fn, params) == Binds(fn, params) /\ ~ fn.is_async

\* str(tool_func(**params)), or the exception the call raises
CallResult(fn, params) ==
    IF ~ Binds(fn, params) THEN Raise(<< "TypeError" >>)
    ELSE IF fn.is_async THEN << "<coroutine object>" >>
    ELSE IF fn.fails THEN Raise(<< "failure of", fn.id >>)
    ELSE << "result of", fn.id >>

\* the key of tool_map that equals the parsed action name, if any
ToolKeys(tmap, action_name) == { n \in DOMAIN tmap : << n >> = action_name }

\* a faulty variant: what the tool function raises is not caught
_execute_action_uncaught(tmap, step) ==
    LET action_name  == step.action
        keys == ToolKeys(tmap, action_name)
        tool == tmap[CHOOSE n \in keys : TRUE]
    IN  IF keys = {}
        THEN << "Error: Tool '" >> \o action_name \o << "' not found" >>
        ELSE IF "function" \notin DOMAIN tool
        THEN << "Error: Tool '" >> \o action_name
                 \o << "' has no implementation" >>
        ELSE CallResult(tool.function,
                        ActionParams(Get(step, "input", << >>)))

\* ReActPlanner._execute_action: the observation text
_execute_action(tmap, step) ==
    LET action_name  == step.action
        action_input == Get(step, "input", << >>)
        keys == ToolKeys(tmap, action_name)
        tool == tmap[CHOOSE n \in keys : TRUE]
    IN  IF keys = {}
        THEN << "Error: Tool '" >> \o action_name \o << "' not found" >>
        ELSE IF "function" \notin DOMAIN tool
        THEN << "Error: Tool '" >> \o action_name
                 \o << "' has no implementation" >>
        ELSE LET res == CallResult(tool.function, ActionParams(action_input))
             IN  IF IsRaise(res)
                 THEN << "Error executing " >> \o action_name \o << ": " >>
                          \o ErrText(res)
                 ELSE res

\* the calls of tool functions _execute_action makes: at most one
ToolCalls(tmap, step) ==
    LET keys == ToolKeys(tmap, step.action)
        tool == tmap[CHOOSE n \in keys : TRUE]
    IN  IF keys # {} /\ "function" \in DOMAIN tool
        THEN << [name |-> tool.name, fn |-> tool.function.id,
                 params |-> ActionParams(Get(step, "input", << >>)),
                 ran |-> RunsBody(tool.function,
                                  ActionParams(Get(step, "input", << >>)))] >>
        ELSE << >>

-----------------------------------------------------------------------------
(* ReActPlanner *)

\* What llm_call does in the model: it returns one of these texts, returns
\* None, or raises.
ReActTexts ==
    { << FA, WS, "x" >>,                          \* Final Answer: x
      << WS, FA, WS, "x", WS >>,                  \* the same inside blanks
      << FA, WS, "x", WS, FA, WS, "y" >>,         \* the marker twice
      << FA >>,                                   \* the marker alone
      << TH, WS, "x" >>,                          \* a thought
      << "x" >>,                                  \* bare text
      << TH, WS, "x", WS, FA, WS, "y" >>,         \* the marker after a thought
      << AC, WS, "calculator" >>,                 \* an action without input
      << AC, WS, "calculator", WS, AI, WS, J_EXPR >>,
      << TH, WS, "x", WS, AC, WS, "calculator", WS, AI, WS, "1+1", WS, OB >>,
      << AC, WS, "web_search", WS, AI, WS, J_QUERY >>,
      << AC, WS, "failing", WS, AI, WS, "q" >>,
      << AC, WS, "missing" >> }                   \* a tool nobody registered

QuotaError == Raise(<< "429 quota exceeded" >>)
NetError   == Raise(<< "connection error" >>)
ModelFailures == { QuotaError, NetError }

ReActBehaviours == ReActTexts \cup { None } \cup ModelFailures

\* str(e) of the AttributeError that None.strip() raises
NoStrip == << "'NoneType' object has no attribute 'strip'" >>

\* a faulty variant: the count of steps reported as the iterations
ReActExhaustedCountsSteps(query, stps, bound) ==
    [query |-> query, steps |-> stps, final_answer |-> None,
     iterations |-> Len(stps), status |-> "max_iterations_reached"]

\* the dict plan() returns when the loop is exhausted (lines 105-112)
ReActExhausted(query, stps, bound) ==
    [query |-> query, steps |-> stps, final_answer |-> None,
     iterations |-> bound, status |-> "max_iterations_reached"]

\* a faulty variant: the steps of the trace are counted as the iterations
ReActFinalCountsSteps(query, stps, step, iter) ==
    [query |-> query, steps |-> stps,
     final_answer |-> Get(step, "content", << >>), iterations |-> Len(stps)]

\* the dict plan() returns on a final answer (lines 80-85)
ReActFinal(query, stps, step, iter) ==
    [query |-> query, steps |-> stps,
     final_answer |-> Get(step, "content", << >>), iterations |-> iter + 1]

\* a faulty variant: the thought of an action is appended as a step of its
\* own
ReActAppendedThoughtApart(tmap, b, iter) ==
    IF IsRaise(b) \/ b = None
    THEN << [type |-> "observation",
             content |-> << "Error: " >>
                         \o (IF b = None THEN NoStrip ELSE ErrText(b)),
             iteration |-> iter + 1] >>
    ELSE LET step == _parse_react_response(b)
         IN  IF step.type = "action"
             THEN (IF step.thought # << >>
                   THEN << [type |-> "thought", content |-> step.thought] >>
                   ELSE << >>)
                  \o << step,
                        [type |-> "observation",
                         content |-> _execute_action(tmap, step),
                         iteration |-> iter + 1] >>
             ELSE << step >>

\* a faulty variant: an action naming a tool nobody registered gets no
\* observation
ReActAppendedUnknownSilent(tmap, b, iter) ==
    IF IsRaise(b) \/ b = None
    THEN << [type |-> "observation",
             content |-> << "Error: " >>
                         \o (IF b = None THEN NoStrip ELSE ErrText(b)),
             iteration |-> iter + 1] >>
    ELSE LET step == _parse_react_response(b)
         IN  IF step.type = "action" /\ ToolKeys(tmap, step.action) # {}
             THEN << step,
                     [type |-> "observation",
                      content |-> _execute_action(tmap, step),
                      iteration |-> iter + 1] >>
             ELSE << step >>

\* a faulty variant: an iteration whose model call failed appends nothing
ReActAppendedSkipsFailure(tmap, b, iter) ==
    IF IsRaise(b) \/ b = None
    THEN << >>
    ELSE LET step == _parse_react_response(b)
         IN  IF step.type = "action"
             THEN << step,
                     [type |-> "observation",
                      content |-> _execute_action(tmap, step),
                      iteration |-> iter + 1] >>
             ELSE << step >>

\* the steps one iteration appends for model behaviour b (lines 72-103)
ReActAppended(tmap, b, iter) ==
    IF IsRaise(b) \/ b = None
    THEN << [type |-> "observation",
             content |-> << "Error: " >>
                         \o (IF b = None THEN NoStrip ELSE ErrText(b)),
             iteration |-> iter + 1] >>
    ELSE LET step == _parse_react_response(b)
         IN  IF step.type = "action"
             THEN << step,
                     [type |-> "observation",
                      content |-> _execute_action(tmap, step),
                      iteration |-> iter + 1] >>
             ELSE << step >>

\* a faulty variant: a final answer without content does not end the loop
ReActEndsIfContent(b) ==
    /\ ~ IsRaise(b)
    /\ b # None
    /\ _parse_react_response(b).type = "final_answer"
    /\ _parse_react_response(b).content # << >>

\* whether the iteration for behaviour b ends the loop with a final answer
ReActEnds(b) ==
    /\ ~ IsRaise(b)
    /\ b # None
    /\ _parse_react_response(b).type = "final_answer"

\* One iteration of the loop of ReActPlanner.plan, the return that follows
\* it included.
ReActIterate(b) ==
    LET added == ReActAppended(tool_map, b, iteration)
        stps  == steps \o added
    IN  /\ pc = "react"
        /\ llm_log' = Append(llm_log, b)
        /\ steps' = stps
        /\ tool_log' =
              tool_log \o (IF ~ IsRaise(b) /\ b # None /\ added[1].type = "action"
                           THEN ToolCalls(tool_map, added[1]) ELSE << >>)
        /\ iteration' = iteration + 1
        /\ plan' = IF ReActEnds(b)
                   THEN ReActFinal(request.query, stps, added[1], iteration)
                   ELSE IF iteration + 1 >= max_iterations
                   THEN ReActExhausted(request.query, stps, max_iterations)
                   ELSE Nil
        /\ UNCHANGED << prompt, plannerVars >>

\* ReActPlanner.plan up to its first model call (lines 58-62): what it
\* returns at once, Nil if it enters the loop
ReActEnter(query) ==
    IF max_iterations <= 0
    THEN ReActExhausted(query, << >>, max_iterations)
    ELSE Nil

\* ReActPlanner.add_tool (lines 243-246)
ReActAddTool(tool) ==
    /\ planner_tools' = Append(planner_tools, tool)
    /\ tool_map' = [n \in DOMAIN tool_map \cup {tool.name} |->
                      IF n = tool.name THEN tool ELSE tool_map[n]]

\* ReActPlanner.__init__ (line 36): tool_map built from the list
ToolMapOf(list) ==
    [n \in { list[i].name : i \in DOMAIN list } |->
        list[CHOOSE i \in DOMAIN list :
                /\ list[i].name = n
                /\ \A j \in DOMAIN list : list[j].name = n => j <= i]]

-----------------------------------------------------------------------------
(* CoTPlanner *)

\* str(n)
NumTok(n) == ToString(n)

\* "Conclusion:" is the word followed by a colon
CONCL == << CN, CO >>

\* CoTPlanner._parse_cot_response (lines 175-207)
_parse_cot_response(resp, step_num) ==
    LET r == Strip(resp)
        pieces == Split(r, CONCL)
        after_step == Split1(Split1(r, << ST >>)[2], << CO >>)
        step_content ==
            IF StartsWith(r, << ST, WS, NumTok(step_num + 1), CO >>)
            THEN Strip(Split1(r, << CO >>)[2])
            ELSE IF Contains(r, << ST >>) /\ Len(after_step) > 1
            THEN Strip(after_step[2])
            ELSE r
    IN  IF Contains(r, CONCL) \/ StartsWith(r, << CN >>)
        THEN [step |-> step_num + 1, type |-> "conclusion",
              content |-> Strip(pieces[Len(pieces)]), is_conclusion |-> TRUE]
        ELSE [step |-> step_num + 1, type |-> "reasoning",
              content |-> step_content, is_conclusion |-> FALSE]

\* what llm_call does for a reasoning prompt
CoTTexts ==
    { << CN, CO, WS, "done" >>,                       \* Conclusion: done
      << CN, CO, WS, "a", WS, CN, CO, WS, "b" >>,     \* the marker twice
      << "x", WS, CN, CO, WS, "done" >>,              \* reasoning, then it
      << CN, WS, "x" >>,                              \* the word, no colon
      << ST, WS, "1", CO, WS, "x" >>,                 \* Step 1: x
      << "y" >> }                                     \* bare text

CoTBehaviours == CoTTexts \cup { None, NetError }

\* what llm_call does for a reflection prompt
ReflectionBehaviours ==
    { << "fine" >>, << CN, CO, WS, "z" >>, << >>, None, NetError }

\* the steps a prompt lists: _build_next_step_prompt (lines 157-160)
ListedSteps(previous_steps) ==
    LET last3 == LastN(previous_steps, 3)
    IN  SelectSeq(last3, LAMBDA st : st.type # "reflection")

InitialPrompt == [kind |-> "initial", listed |-> << >>]
NextPrompt(previous_steps) ==
    [kind |-> "next", listed |-> ListedSteps(previous_steps)]

\* CoTPlanner._reflect_on_progress (lines 215-231): the text or None
_reflect_on_progress(rb) ==
    IF IsRaise(rb) \/ rb = None THEN None ELSE Strip(rb)

\* a faulty variant: the first iteration asks for a reflection too
ReflectsAtEveryThird(step_num) ==
    enable_reflection /\ step_num % 3 = 0

\* whether iteration step_num asks for a reflection (line 81)
ReflectsAt(step_num) ==
    enable_reflection /\ step_num > 0 /\ step_num % 3 = 0

\* the dict plan() returns on a conclusion (lines 65-70)
CoTFinal(query, stps, step, step_num) ==
    [query |-> query, reasoning_steps |-> stps,
     conclusion |-> Get(step, "content", << >>), total_steps |-> step_num + 1]

\* a faulty variant: the length of the trace reported as the steps taken
CoTExhaustedCountsTrace(query, stps, bound) ==
    [query |-> query, reasoning_steps |-> stps, conclusion |-> None,
     total_steps |-> Len(stps), status |-> "max_steps_reached"]

\* the dict plan() returns when the steps are used up (lines 98-105)
CoTExhausted(query, stps, bound) ==
    [query |-> query, reasoning_steps |-> stps, conclusion |-> None,
     total_steps |-> bound, status |-> "max_steps_reached"]

\* a faulty variant: the error step says nothing of what went wrong
CoTErrorStepNoText(step_num, text) ==
    [step |-> step_num + 1, type |-> "error", content |-> << "Error: " >>]

\* the step the except branch of plan() appends (lines 90-96)
CoTErrorStep(step_num, text) ==
    [step |-> step_num + 1, type |-> "error",
     content |-> << "Error: " >> \o text]

\* whether behaviour b yields a conclusion step
CoTEnds(b, step_num) ==
    /\ ~ IsRaise(b)
    /\ b # None
    /\ _parse_cot_response(b, step_num).is_conclusion

\* One iteration of the loop of CoTPlanner.plan for model behaviour b, with
\* the reflection call (behaviour rb) when the iteration makes one, and the
\* return that follows the iteration.
CoTIterate(b, rb) ==
    LET failed  == IsRaise(b) \/ b = None
        step    == _parse_cot_response(b, iteration)
        ends    == CoTEnds(b, iteration)
        reflect == ~ failed /\ ~ ends /\ ReflectsAt(iteration)
        refl    == _reflect_on_progress(rb)
        stps1   == IF failed
                   THEN Append(steps, CoTErrorStep(iteration,
                                 IF b = None THEN NoStrip ELSE ErrText(b)))
                   ELSE Append(steps, step)
        stps    == IF reflect /\ refl # None /\ refl # << >>
                   THEN Append(stps1, [step |-> iteration + 1,
                                       type |-> "reflection",
                                       content |-> refl])
                   ELSE stps1
    IN  /\ pc = "cot"
        /\ reflect \/ rb = << >>
        /\ llm_log' = llm_log \o << b >> \o (IF reflect THEN << rb >> ELSE << >>)
        /\ steps' = stps
        /\ prompt' = IF failed \/ ends THEN prompt ELSE NextPrompt(stps1)
        /\ iteration' = iteration + 1
        /\ plan' = IF ends
                   THEN CoTFinal(request.query, stps, step, iteration)
                   ELSE IF iteration + 1 >= max_iterations
                   THEN CoTExhausted(request.query, stps, max_iterations)
                   ELSE Nil
        /\ UNCHANGED << tool_log, plannerVars >>

\* CoTPlanner.plan up to its first model call (lines 48-54): what it
\* returns at once, Nil if it enters the loop
CoTEnter(query) ==
    IF max_iterations <= 0
    THEN CoTExhausted(query, << >>, max_iterations)
    ELSE Nil

-----------------------------------------------------------------------------
(* ShortTermMemory *)

\* Message.timestamp (line 25), counted in calls of process: the first call
\* is 1
Now == IF pc = "idle" THEN agent.calls + 1 ELSE agent.calls

Msg(role, content) ==
    [role |-> role, content |-> content, timestamp |-> Now]

\* ShortTermMemory.count_tokens: the encoder takes text only
count_tokens(content) == Len(content)

RECURSIVE SumTokens(_)
SumTokens(msgs) ==
    IF msgs = << >> THEN 0
    ELSE count_tokens(Head(msgs).content) + SumTokens(Tail(msgs))

\* ShortTermMemory._get_messages_within_token_limit (lines 146-158): the
\* longest suffix whose tokens fit
RECURSIVE FitFrom(_, _, _)
FitFrom(msgs, i, used) ==
    IF i = 0 \/ used + count_tokens(msgs[i].content) > MaxTokens
    THEN SubSeq(msgs, i + 1, Len(msgs))
    ELSE FitFrom(msgs, i - 1, used + count_tokens(msgs[i].content))

_get_messages_within_token_limit(msgs) == FitFrom(msgs, Len(msgs), 0)

\* ShortTermMemory.add_message with _trim_if_needed (lines 86-88, 160-169):
\* the list it leaves, and whether it raised.  Encoding a content of None
\* raises TypeError, after the append and the trim by count.
add_message(msgs, role, content) ==
    LET appended == Append(msgs, Msg(role, content))
        by_count == LastN(appended, MaxMessages)
        has_none == \E i \in DOMAIN by_count : by_count[i].content = None
    IN  IF has_none
        THEN [messages |-> by_count, raised |-> TRUE]
        ELSE IF SumTokens(by_count) > MaxTokens
        THEN [messages |-> _get_messages_within_token_limit(by_count),
              raised |-> FALSE]
        ELSE [messages |-> by_count, raised |-> FALSE]

TokenTypeError == << "expected string or buffer" >>

-----------------------------------------------------------------------------
(* LongTermMemory *)

\* LongTermMemory.store_conversation (lines 49-79): a no-op when disabled,
\* and a failure of the store is swallowed
store_conversation(store, enabled, store_ok, session_id, msgs) ==
    IF enabled /\ store_ok
    THEN Append(store, [session_id |-> session_id, messages |-> msgs])
    ELSE store

\* a faulty variant: every entry filed under the session is returned
search_memories_unbounded(store, enabled, store_ok, session_id, n) ==
    IF enabled /\ store_ok
    THEN SelectSeq(store, LAMBDA e : e.session_id = session_id)
    ELSE << >>

\* LongTermMemory.search_memories (lines 98-127): at most n entries filed
\* under the session; [] when disabled or when the store fails
search_memories(store, enabled, store_ok, session_id, n) ==
    IF enabled /\ store_ok
    THEN LET mine == SelectSeq(store, LAMBDA e : e.session_id = session_id)
         IN  Take(mine, IF Len(mine) < n THEN Len(mine) ELSE n)
    ELSE << >>

-----------------------------------------------------------------------------
(* BaseAgent *)

AuthError == Raise(<< "401 invalid api key" >>)

\* the agents of the repository, and "base": a subclass that adds only its
\* retrieve_context and keeps BaseAgent.process and the constructor's
\* arguments (memory and planning are optional, lines 24-26)
AgentKinds == { "local", "search", "cloud", "snowflake", "base" }

AgentName(kind) ==
    CASE kind = "local"     -> "local_data_agent"
      [] kind = "search"    -> "search_agent"
      [] kind = "cloud"     -> "cloud_agent"
      [] kind = "snowflake" -> "snowflake_agent"
      [] OTHER              -> "agent"

DefaultAnswer == << "I couldn't find a complete answer." >>

\* the failure response of process (lines 137-141)
Failure(text) ==
    [success |-> FALSE, error |-> text, agent |-> AgentName(agent.kind)]

\* BaseAgent._build_context (lines 258-263)
_build_context(additional_context, long_term_context) ==
    (IF long_term_context # << >>
     THEN << "Relevant past conversations:" >> \o long_term_context
     ELSE << >>)
    \o (IF additional_context # None /\ additional_context # << >>
        THEN << "Additional context:" >> \o additional_context
        ELSE << >>)

\* the text of the memories found (lines 110-113): one token per entry
MemoryText(memories) == [i \in DOMAIN memories |-> "<conversation>"]

\* a faulty variant: the text of the failure is passed on as it is
DirectErrorRaw(text) == text

\* str(e) of what _process_direct raises for a failed model call
\* (lines 189-199)
DirectError(text) ==
    IF text = ErrText(QuotaError)
    THEN << "OpenAI API quota exceeded. Please check your billing and plan details." >>
    ELSE IF text = ErrText(AuthError)
    THEN << "Invalid OpenAI API key. Please check your .env file." >>
    ELSE text

\* the messages _process_direct sends after the system message (lines
\* 163-171): the last 5 of short-term memory, or the query alone
HistoryWindow == 5

History(msgs, query) ==
    IF agent.use_memory THEN LastN(msgs, HistoryWindow)
    ELSE << [role |-> "user", content |-> query] >>

\* BaseAgent._process_direct (lines 173-199): the response, or the raise
_process_direct(b) ==
    IF IsRaise(b)
    THEN [raise |-> DirectError(ErrText(b))]
    ELSE [success |-> TRUE, answer |-> b, agent |-> AgentName(agent.kind),
          model |-> "model"]

\* dict.get(key, default) on the dict plan() returned (lines 239-242)
PlanAnswer(p) ==
    IF agent.planning = "react"
    THEN Get(p, "final_answer", DefaultAnswer)
    ELSE Get(p, "conclusion", DefaultAnswer)

\* the response of BaseAgent._process_with_planning (lines 244-250)
_process_with_planning(p) ==
    [success |-> TRUE, answer |-> PlanAnswer(p),
     agent |-> AgentName(agent.kind), plan |-> p, model |-> "model"]

\* process from its start to the choice of the path (lines 101-116)
ProcessHead(msgs, store, query, session_id, context, store_ok) ==
    LET m1 == IF agent.use_memory
              THEN add_message(msgs, "user", query)
              ELSE [messages |-> msgs, raised |-> FALSE]
        memories ==
              IF agent.use_memory /\ session_id # None
              THEN search_memories(store, agent.ltm_enabled, store_ok,
                                   session_id, 3)
              ELSE << >>
    IN  [raised   |-> m1.raised,
         messages |-> m1.messages,
         memories |-> memories,
         context  |-> _build_context(context, MemoryText(memories))]

\* a faulty variant: the failure of the source leaves retrieve_context
VariantHeadUncaught(kind, retrieval, run) ==
    [early |-> IF retrieval = "failed" THEN Failure(<< "down" >>) ELSE Nil,
     context |-> None, calls |-> << >>]

\* a faulty variant: what the path raised leaves process() as it is
ProcessTailUncaught(resp, msgs, store, session_id, store_ok) ==
    IF "raise" \in DOMAIN resp
    THEN [messages |-> msgs, long_term |-> store, response |-> resp]
    ELSE [messages |-> msgs, long_term |-> store, response |-> resp]

\* process after the path returned resp (lines 124-133), its except branch
\* (lines 135-141) included
ProcessTail(resp, msgs, store, session_id, store_ok) ==
    LET m2 == IF agent.use_memory /\ "answer" \in DOMAIN resp
              THEN add_message(msgs, "assistant", resp.answer)
              ELSE [messages |-> msgs, raised |-> FALSE]
    IN  IF "raise" \in DOMAIN resp
        THEN [messages |-> msgs, long_term |-> store,
              response |-> Failure(resp.raise)]
        ELSE IF m2.raised
        THEN [messages |-> m2.messages, long_term |-> store,
              response |-> Failure(TokenTypeError)]
        ELSE [messages |-> m2.messages,
              long_term |->
                  IF agent.use_memory /\ session_id # None
                  THEN store_conversation(store, agent.ltm_enabled, store_ok,
                                          session_id, m2.messages)
                  ELSE store,
              response |-> resp]

-----------------------------------------------------------------------------
(* The planners on their own: a planner is built, tools are added to it,   *)
(* and plan() is called once.                                              *)

TheQuery == << "q" >>

\* tools a caller may hand to ReActPlanner
PlannerTools ==
    { ToolWith("calculator", CalculatorFn),
      ToolWith("failing", FailingFn),
      Schema("calculator") }

NoAgent == [kind |-> "none"]

InitCall ==
    /\ pc = "ready"
    /\ steps = << >>
    /\ iteration = 0
    /\ prompt = InitialPrompt
    /\ plan = Nil
    /\ llm_log = << >>
    /\ tool_log = << >>
    /\ raised = FALSE

InitNoAgent ==
    /\ agent = NoAgent
    /\ tools = << >>
    /\ tool_functions = << >>
    /\ messages = << >>
    /\ long_term = << >>
    /\ request = [query |-> TheQuery]
    /\ response = Nil

\* no aggregator and no orchestrator are built for the run
NoOrchestrator == [kind |-> "none"]

InitNoTeam ==
    /\ snowflake_agent = FALSE
    /\ selected = << >>
    /\ agent_responses = << >>
    /\ calls = << >>
    /\ orchestrator = NoOrchestrator
    /\ ran = << >>

\* ReActPlanner.__init__ (lines 34-36)
InitReAct ==
    /\ InitNoTeam
    /\ max_iterations \in 0..MaxIter
    /\ enable_reflection = FALSE
    /\ planner_tools = << >>
    /\ tool_map = ToolMapOf(planner_tools)
    /\ InitCall
    /\ InitNoAgent

\* ReActPlanner.add_tool, called on the planner
PlannerAddTool(tool) ==
    /\ UNCHANGED teamVars
    /\ pc = "ready"
    /\ Len(planner_tools) < MaxAddTool
    /\ ReActAddTool(tool)
    /\ UNCHANGED << max_iterations, enable_reflection, pc, callVars,
                    agentVars, raised >>

\* ReActPlanner.plan called with a model-call function, or without one
\* (lines 55-56: ValueError)
ReActPlanCall(has_llm_call) ==
    /\ UNCHANGED teamVars
    /\ pc = "ready"
    /\ raised' = ~ has_llm_call
    /\ plan' = IF has_llm_call THEN ReActEnter(request.query) ELSE Nil
    /\ pc' = IF ~ has_llm_call THEN "raised"
             ELSE IF plan' # Nil THEN "returned" ELSE "react"
    /\ UNCHANGED << steps, iteration, prompt, llm_log, tool_log,
                    plannerVars, agentVars >>

\* one iteration of the loop, and the return to plan()'s caller
ReActPlanStep(b) ==
    /\ UNCHANGED teamVars
    /\ agent = NoAgent
    /\ ReActIterate(b)
    /\ pc' = IF plan' # Nil THEN "returned" ELSE "react"
    /\ UNCHANGED << agentVars, raised >>

NextReAct ==
    \/ \E tool \in PlannerTools : PlannerAddTool(tool)
    \/ \E has_llm_call \in BOOLEAN : ReActPlanCall(has_llm_call)
    \/ \E b \in ReActBehaviours : ReActPlanStep(b)

SpecReAct == InitReAct /\ [][NextReAct]_vars

\* CoTPlanner.__init__ (lines 25-26)
InitCoT ==
    /\ InitNoTeam
    /\ max_iterations \in 0..MaxSteps
    /\ enable_reflection \in BOOLEAN
    /\ planner_tools = << >>
    /\ tool_map = << >>
    /\ InitCall
    /\ InitNoAgent

\* CoTPlanner.plan called with a model-call function, or without one
CoTPlanCall(has_llm_call) ==
    /\ UNCHANGED teamVars
    /\ pc = "ready"
    /\ raised' = ~ has_llm_call
    /\ plan' = IF has_llm_call THEN CoTEnter(request.query) ELSE Nil
    /\ pc' = IF ~ has_llm_call THEN "raised"
             ELSE IF plan' # Nil THEN "returned" ELSE "cot"
    /\ UNCHANGED << steps, iteration, prompt, llm_log, tool_log,
                    plannerVars, agentVars >>

CoTPlanStep(b, rb) ==
    /\ UNCHANGED teamVars
    /\ agent = NoAgent
    /\ CoTIterate(b, rb)
    /\ pc' = IF plan' # Nil THEN "returned" ELSE "cot"
    /\ UNCHANGED << agentVars, raised >>

NextCoT ==
    \/ \E has_llm_call \in BOOLEAN : CoTPlanCall(has_llm_call)
    \/ \E b \in CoTBehaviours, rb \in ReflectionBehaviours : CoTPlanStep(b, rb)

SpecCoT == InitCoT /\ [][NextCoT]_vars

\* Planners of both classes.  The state does not name the class of the
\* planner: a ReActPlanner is one built as InitReAct builds it (no
\* reflection flag, at most MaxIter iterations), a CoTPlanner one built as
\* InitCoT builds it (no tools).
InitPlanners == InitReAct \/ InitCoT

NextPlanners ==
    \/ /\ ~ enable_reflection
       /\ max_iterations <= MaxIter
       /\ NextReAct
    \/ /\ planner_tools = << >>
       /\ NextCoT

SpecPlanners == InitPlanners /\ [][NextPlanners]_vars

-----------------------------------------------------------------------------
(* An agent: it is built, tools are added to it, and process() is called   *)
(* on it, one call at a time (a call runs to its end before the next).     *)

\* a query of more tokens than short-term memory keeps (max_tokens)
LongQuery == [i \in 1..(MaxTokens + 1) |-> "w"]

\* the queries process() is called with; the long one is asked of an
\* agent with both memories that is built from BaseAgent's own arguments
\* and answers directly
Queries  == { << "q" >>, LongQuery }
QueriesOf(a) ==
    IF /\ a.kind = "base"
       /\ a.use_memory
       /\ a.ltm_enabled
       /\ a.planning = "none"
    THEN Queries ELSE { << "q" >> }
NoRequest == [query |-> TheQuery]
Sessions == { None, << "s1" >>, << "s2" >> }

\* BaseAgent.add_tool (lines 79-82) on the four containers.  When the
\* constructor was given a non-empty tools list, the agent and its planner
\* hold the same list object (lines 61, 68), and both appends land in it.
add_tool(st, tool, fn) ==
    LET react  == agent.planning = "react"
        twice  == react /\ agent.aliased
        added  == IF twice THEN << tool, tool >> ELSE << tool >>
    IN  [tools |-> st.tools \o added,
         tool_functions |->
             [n \in DOMAIN st.tool_functions \cup {tool.name} |->
                 IF n = tool.name THEN fn ELSE st.tool_functions[n]],
         planner_tools |->
             IF ~ react THEN st.planner_tools
             ELSE IF agent.aliased THEN st.tools \o added
             ELSE Append(st.planner_tools, tool),
         tool_map |->
             IF ~ react THEN st.tool_map
             ELSE [n \in DOMAIN st.tool_map \cup {tool.name} |->
                     IF n = tool.name THEN tool ELSE st.tool_map[n]]]

RECURSIVE AddAll(_, _)
AddAll(st, regs) ==
    IF regs = << >> THEN st
    ELSE AddAll(add_tool(st, Head(regs).tool, Head(regs).fn), Tail(regs))

Reg(tool, fn) == [tool |-> tool, fn |-> fn]

\* the registrations Orchestrator._process_agent_with_tools repeats on every
\* request (lines 197-218), by the settings of the deployment
TierRegs(tier) ==
    CASE tier = "calculator" -> << Reg(Schema("calculator"), CalculatorFn) >>
      [] tier = "all" ->
            << Reg(Schema("calculator"), CalculatorFn),
               Reg(Schema("web_search"), WebSearchFn),
               Reg(Schema("database_query"), DbQueryFn) >>
      [] OTHER -> << >>

\* the containers after the constructor of the agent (SearchAgent.__init__
\* hands its schema to BaseAgent.__init__ and registers it again, lines
\* 17-39)
ToolState(t, tf, pt, tm) ==
    [tools |-> t, tool_functions |-> tf, planner_tools |-> pt, tool_map |-> tm]

\* the agents the model builds: each agent of the repository as it is
\* built there (memory on, the planner by its use_planning argument), the
\* local agent of the agent tier, and BaseAgent with each of the
\* constructor's arguments
Settings(kind, use_memory, planning, ltm_enabled, tier) ==
    [kind |-> kind, use_memory |-> use_memory, planning |-> planning,
     ltm_enabled |-> ltm_enabled, aliased |-> (kind = "search"),
     tier |-> tier, adds |-> 0, calls |-> 0, served |-> << >>]

AgentSettings ==
    { Settings(k, TRUE, "none", TRUE, "none") :
         k \in { "local", "search", "cloud", "snowflake" } }
    \cup { Settings("search", TRUE, "react", TRUE, "none") }
    \cup { Settings("local", TRUE, "react", TRUE, t) :
             t \in { "calculator", "all" } }
    \cup { Settings("base", m, pl, TRUE, "none") :
             m \in BOOLEAN, pl \in { "none", "react", "cot" } }
    \cup { Settings("base", TRUE, "none", FALSE, "none") }

\* what the store holds when the agent is built: the vector store is kept
\* on disk (vector_store.py lines 29-37), so it is empty or holds the
\* conversations an earlier process filed, here four of them under one
\* session (the messages as get_messages() formats them)
PriorConversation ==
    [session_id |-> << "s1" >>,
     messages |-> << [role |-> "user", content |-> << "q" >>],
                     [role |-> "assistant", content |-> << "answer" >>] >>]

PriorStores(a) ==
    IF a.kind = "base" /\ a.use_memory /\ a.ltm_enabled /\ a.planning = "none"
    THEN { << >>, [i \in 1..4 |-> PriorConversation] }
    ELSE { << >> }

InitAgent ==
    /\ InitNoTeam
    /\ agent \in AgentSettings
    /\ max_iterations \in IF agent.planning = "none" THEN { 0 }
                          ELSE 0..MaxAgentIter
    /\ enable_reflection = TRUE
    /\ LET given == IF agent.kind = "search"
                    THEN << Schema("web_search") >> ELSE << >>
           built == ToolState(given, << >>,
                              IF agent.planning = "react" THEN given ELSE << >>,
                              IF agent.planning = "react"
                              THEN ToolMapOf(given) ELSE << >>)
           st == IF agent.kind = "search"
                 THEN add_tool(built, Schema("web_search"), WebSearchFn)
                 ELSE built
       IN  /\ tools = st.tools
           /\ tool_functions = st.tool_functions
           /\ planner_tools = st.planner_tools
           /\ tool_map = st.tool_map
    /\ messages = << >>
    /\ long_term \in PriorStores(agent)
    /\ request = NoRequest
    /\ response = Nil
    /\ pc = "idle"
    /\ steps = << >>
    /\ iteration = 0
    /\ prompt = InitialPrompt
    /\ plan = Nil
    /\ llm_log = << >>
    /\ tool_log = << >>
    /\ raised = FALSE

\* tools a caller may add to an agent
AgentTools ==
    { Reg(Schema("calculator"), CalculatorFn),
      Reg(Schema("calculator"), CalculatorFn2) }

\* the agents the model adds tools to by hand
AddsTools(a) == a.kind = "base" /\ a.use_memory /\ a.planning = "react"

\* BaseAgent.add_tool, called on the agent
AgentAddTool(reg) ==
    /\ UNCHANGED teamVars
    /\ pc = "idle"
    /\ agent.adds < MaxAddTool
    /\ agent.calls = 0
    /\ AddsTools(agent)
    /\ LET st == add_tool(ToolState(tools, tool_functions, planner_tools,
                                    tool_map), reg.tool, reg.fn)
       IN  /\ tools' = st.tools
           /\ tool_functions' = st.tool_functions
           /\ planner_tools' = st.planner_tools
           /\ tool_map' = st.tool_map
    /\ agent' = [agent EXCEPT !.adds = @ + 1]
    /\ UNCHANGED << max_iterations, enable_reflection, pc, callVars,
                    messages, long_term, request, response, raised >>

\* what retrieve_context returns (it catches every failure of its source
\* and returns a text): LocalDataAgent lines 38-57, SearchAgent lines 52-72,
\* CloudAgent lines 80-92
RetrievedOk(kind) ==
    CASE kind = "local"  -> << "Relevant documents from local data:" >>
      [] kind = "search" -> << "Web search results:" >>
      [] kind = "cloud"  -> << "Documents in bucket:" >>
      [] OTHER -> None

RetrievedFailed(kind) ==
    CASE kind = "local"  -> << "Error retrieving local documents: ", "down" >>
      [] kind = "search" -> << "Error performing web search: ", "down" >>
      [] kind = "cloud"  -> << "Cloud storage is not configured." >>
      [] OTHER -> None

Retrievals(kind) ==
    IF kind \in { "local", "search", "cloud" } THEN { "ok", "failed" }
    ELSE { "none" }

\* how the steps of SnowflakeAgent.process before super().process go
\* (lines 169-196): the SQL model call raises; the query returns an error
\* row; it returns rows and the summary call answers or raises; it returns
\* no row
SnowflakeRuns(kind) ==
    IF kind = "snowflake"
    THEN { "sql_fails", "query_error", "rows", "summary_fails", "no_rows" }
    ELSE { "none" }

SqlText == << "SELECT 1" >>

\* The part of process() a variant runs before BaseAgent.process: the
\* response it returns at once (Nil if none), the context it hands on, and
\* the model calls it made.
VariantHead(kind, retrieval, run) ==
    CASE kind = "snowflake" /\ run = "sql_fails" ->
            [early |-> Failure(ErrText(NetError)), context |-> None,
             calls |-> << NetError >>]
      [] kind = "snowflake" /\ run = "query_error" ->
            [early |-> [success |-> FALSE, error |-> << "query failed" >>,
                        sql_query |-> SqlText,
                        agent |-> AgentName(kind)],
             context |-> None, calls |-> << SqlText >>]
      [] kind = "snowflake" /\ run = "rows" ->
            [early |-> Nil, context |-> << "SQL Query:", "Results (1 rows)" >>,
             calls |-> << SqlText, << "summary" >> >>]
      [] kind = "snowflake" /\ run = "summary_fails" ->
            [early |-> Nil, context |-> << "SQL Query:", "Results (1 rows)" >>,
             calls |-> << SqlText, NetError >>]
      [] kind = "snowflake" /\ run = "no_rows" ->
            [early |-> Nil, context |-> << "SQL Query:", "Results (0 rows)" >>,
             calls |-> << SqlText >>]
      [] OTHER ->
            [early |-> Nil,
             context |-> IF retrieval = "ok" THEN RetrievedOk(kind)
                         ELSE RetrievedFailed(kind),
             calls |-> << >>]

\* what the model does for the one call of the direct path
DirectBehaviours ==
    { << "answer" >>, None, QuotaError, AuthError, NetError }

\* CloudAgent._init_cloud_client (lines 30-33, 68) puts the storage client,
\* or None, in self.client, which BaseAgent._process_direct takes for the
\* model client: self.client.chat raises AttributeError
NoChatError == Raise(<< "object has no attribute 'chat'" >>)

DirectBehavioursOf(kind) ==
    IF kind = "cloud" THEN { NoChatError } ELSE DirectBehaviours

\* what the model does for a call the agent's planner makes
AgentReActBehaviours ==
    { << FA, WS, "x" >>, << TH, WS, "x" >>,
      << AC, WS, "calculator", WS, AI, WS, J_EXPR >>, QuotaError }

AgentCoTBehaviours ==
    { << CN, CO, WS, "done" >>, << ST, WS, "1", CO, WS, "x" >>, NetError }

\* process(): the registrations of the agent tier, the variant's own steps,
\* BaseAgent.process up to the model call of the direct path or the first
\* model call of the planner, and, when the call ends here, its return.
Process(query, session_id, retrieval, run, store_ok, d) ==
    /\ UNCHANGED teamVars
    /\ pc = "idle"
    /\ agent.calls < MaxRequests
    /\ store_ok \/ (agent.use_memory /\ agent.ltm_enabled /\ session_id # None)
    /\ \E st \in { AddAll(ToolState(tools, tool_functions, planner_tools,
                                    tool_map), TierRegs(agent.tier)) },
          pre \in { VariantHead(agent.kind, retrieval, run) } :
       \E head \in { ProcessHead(messages, long_term, query, session_id,
                                 pre.context, store_ok) },
          p0 \in { IF agent.planning = "react" THEN ReActEnter(query)
                   ELSE CoTEnter(query) } :
       LET planned == agent.planning # "none"
           ends_early == pre.early # Nil \/ head.raised
           runs_on == ~ ends_early /\ planned /\ p0 = Nil
       IN  /\ (d = << >>) = (planned \/ pre.early # Nil)
           /\ \E tail \in { ProcessTail(IF planned
                                        THEN _process_with_planning(p0)
                                        ELSE _process_direct(d),
                                        head.messages, long_term, session_id,
                                        store_ok) } :
              /\ messages' = IF pre.early # Nil THEN messages
                             ELSE IF head.raised \/ runs_on THEN head.messages
                             ELSE tail.messages
              /\ long_term' = IF ends_early \/ runs_on
                              THEN long_term ELSE tail.long_term
              /\ response' = IF pre.early # Nil THEN pre.early
                             ELSE IF head.raised THEN Failure(TokenTypeError)
                             ELSE IF runs_on THEN Nil
                             ELSE tail.response
           /\ agent' = [agent EXCEPT !.calls = @ + 1,
                                      !.served = Append(@, session_id)]
           /\ tools' = st.tools
           /\ tool_functions' = st.tool_functions
           /\ planner_tools' = st.planner_tools
           /\ tool_map' = st.tool_map
           /\ request' = [query |-> query, session_id |-> session_id,
                          retrieval |-> retrieval,
                          additional |-> pre.context,
                          memory_raised |-> (pre.early = Nil /\ head.raised),
                          context |-> IF ends_early THEN None
                                      ELSE head.context,
                          store_ok |-> store_ok,
                          direct_call |-> (~ ends_early /\ ~ planned),
                          history |-> IF planned \/ ends_early THEN << >>
                                      ELSE History(head.messages, query)]
           /\ steps' = << >>
           /\ iteration' = 0
           /\ prompt' = InitialPrompt
           /\ tool_log' = << >>
           /\ llm_log' = pre.calls
                         \o (IF ~ ends_early /\ ~ planned THEN << d >>
                             ELSE << >>)
           /\ plan' = IF ~ ends_early /\ planned THEN p0 ELSE Nil
           /\ pc' = IF runs_on THEN agent.planning ELSE "done"
    /\ UNCHANGED << max_iterations, enable_reflection, raised >>

\* the rest of process() once plan() has returned (lines 238-250, 124-133)
ProcessReturn ==
    IF plan' = Nil
    THEN /\ pc' = pc
         /\ UNCHANGED << messages, long_term, response >>
    ELSE \E tail \in { ProcessTail(_process_with_planning(plan'), messages,
                                   long_term, request.session_id,
                                   request.store_ok) } :
             /\ pc' = "done"
             /\ messages' = tail.messages
             /\ long_term' = tail.long_term
             /\ response' = tail.response

\* one iteration of the ReAct planner inside process()
ProcessReAct(b) ==
    /\ UNCHANGED teamVars
    /\ agent # NoAgent
    /\ ReActIterate(b)
    /\ ProcessReturn
    /\ UNCHANGED << agent, tools, tool_functions, request, raised >>

\* one iteration of the CoT planner inside process()
ProcessCoT(b, rb) ==
    /\ UNCHANGED teamVars
    /\ agent # NoAgent
    /\ CoTIterate(b, rb)
    /\ ProcessReturn
    /\ UNCHANGED << agent, tools, tool_functions, request, raised >>

\* the caller takes the response: the locals of the call are gone
Return ==
    /\ UNCHANGED teamVars
    /\ pc = "done"
    /\ pc' = "idle"
    /\ request' = NoRequest
    /\ response' = Nil
    /\ steps' = << >>
    /\ iteration' = 0
    /\ prompt' = InitialPrompt
    /\ plan' = Nil
    /\ llm_log' = << >>
    /\ tool_log' = << >>
    /\ UNCHANGED << plannerVars, agent, tools, tool_functions, messages,
                    long_term, raised >>

Next ==
    \/ \E reg \in AgentTools : AgentAddTool(reg)
    \/ \E query \in QueriesOf(agent), session_id \in Sessions,
          retrieval \in Retrievals(agent.kind),
          run \in SnowflakeRuns(agent.kind),
          store_ok \in BOOLEAN,
          d \in DirectBehavioursOf(agent.kind) \cup { << >> } :
            Process(query, session_id, retrieval, run, store_ok, d)
    \/ \E b \in AgentReActBehaviours : ProcessReAct(b)
    \/ \E b \in AgentCoTBehaviours, rb \in ReflectionBehaviours :
            ProcessCoT(b, rb)
    \/ Return

Spec == InitAgent /\ [][Next]_vars

-----------------------------------------------------------------------------
(* AggregatorAgent: the choice of the agents, their calls, the synthesis *)

\* str.lower(), a text being the sequence of its characters
lower(s) ==
    LET upper == << "A", "B", "C", "D", "E", "F", "G", "H", "I", "J", "K",
                    "L", "M", "N", "O", "P", "Q", "R", "S", "T", "U", "V",
                    "W", "X", "Y", "Z" >>
        lowered == << "a", "b", "c", "d", "e", "f", "g", "h", "i", "j", "k",
                      "l", "m", "n", "o", "p", "q", "r", "s", "t", "u", "v",
                      "w", "x", "y", "z" >>
        Lower(c) == IF \E i \in DOMAIN upper : upper[i] = c
                    THEN lowered[CHOOSE i \in DOMAIN upper : upper[i] = c]
                    ELSE c
    IN  [i \in DOMAIN s |-> Lower(s[i])]

\* the keyword list _select_agents tests for each agent (lines 103-119)
Keywords(name) ==
    CASE name = "local" ->
            { << "d", "o", "c", "u", "m", "e", "n", "t" >>,
              << "f", "i", "l", "e" >>,
              << "l", "o", "c", "a", "l" >>,
              << "d", "a", "t", "a" >> }
      [] name = "search" ->
            { << "c", "u", "r", "r", "e", "n", "t" >>,
              << "l", "a", "t", "e", "s", "t" >>,
              << "r", "e", "c", "e", "n", "t" >>,
              << "n", "e", "w", "s" >>,
              << "w", "e", "b" >>,
              << "i", "n", "t", "e", "r", "n", "e", "t" >>,
              << "o", "n", "l", "i", "n", "e" >>,
              << "s", "e", "a", "r", "c", "h" >> }
      [] name = "cloud" ->
            { << "c", "l", "o", "u", "d" >>,
              << "s", "3" >>,
              << "g", "c", "s" >>,
              << "s", "t", "o", "r", "a", "g", "e" >>,
              << "r", "e", "m", "o", "t", "e" >> }
      [] name = "snowflake" ->
            { << "s", "n", "o", "w", "f", "l", "a", "k", "e" >>,
              << "d", "a", "t", "a", " ", "w", "a", "r", "e", "h", "o", "u", "s", "e" >>,
              << "s", "q", "l" >>,
              << "d", "a", "t", "a", "b", "a", "s", "e" >>,
              << "q", "u", "e", "r", "y" >>,
              << "t", "a", "b", "l", "e" >>,
              << "s", "c", "h", "e", "m", "a" >> }
      [] OTHER -> { }

\* whether _select_agents' test for one agent passes (lines 103-119):
\* any(keyword in query_lower ...), and for Snowflake that it is configured
Matches(name, query_lower, has_snowflake) ==
    /\ name = "snowflake" => has_snowflake
    /\ \E keyword \in Keywords(name) : Contains(query_lower, keyword)

\* a faulty variant: nothing is chosen when no keyword is found
_select_agents_no_default(query, has_snowflake) ==
    SelectSeq(<< "local", "search", "cloud", "snowflake" >>,
              LAMBDA name : Matches(name, lower(query), has_snowflake))

\* AggregatorAgent._select_agents (lines 89-127): the keys of the dict it
\* returns, in the order they were inserted
_select_agents(query, has_snowflake) ==
    LET query_lower == lower(query)
        chosen == SelectSeq(<< "local", "search", "cloud", "snowflake" >>,
                    LAMBDA name : Matches(name, query_lower, has_snowflake))
    IN  IF chosen = << >> THEN << "local", "search" >> ELSE chosen

\* what the process of a sub-agent can do when the aggregator calls it: it
\* answers, it answers with no text (the model's content was None), it
\* returns a failure, or it raises. CloudAgent's model call cannot succeed
\* (cloud_agent.py line 33 replaces the model client), so it never answers.
AgentOutcomes(name) ==
    IF name = "cloud" THEN { "failure", "raise" }
    ELSE { "answer", "no_text", "failure", "raise" }

\* what process() stores for an agent (lines 152-160): the response the
\* agent returned (base_agent.py lines 137-141, 201-206), or the failure
\* made of what it raised
Recorded(name, outcome) ==
    CASE outcome = "answer" ->
            [success |-> TRUE, answer |-> << "answer of ", name >>,
             agent |-> AgentName(name), model |-> "model"]
      [] outcome = "no_text" ->
            [success |-> TRUE, answer |-> None,
             agent |-> AgentName(name), model |-> "model"]
      [] outcome = "failure" ->
            [success |-> FALSE, error |-> << "error of ", name >>,
             agent |-> AgentName(name)]
      [] OTHER ->
            [success |-> FALSE, error |-> << "crash of ", name >>]

\* agent_responses[agent_name] = response
Put(responses, name, resp) ==
    [n \in DOMAIN responses \cup { name } |->
        IF n = name THEN resp ELSE responses[n]]

\* a faulty variant: an agent that raises ends the loop
AfterAgentAborting(n_selected, n_called, outcome) ==
    IF outcome = "raise" \/ n_called >= n_selected
    THEN "synthesize" ELSE "agents"

\* where process() goes after one agent's call (lines 151-163)
AfterAgent(n_selected, n_called, outcome) ==
    IF n_called < n_selected THEN "agents" ELSE "synthesize"

\* sep.join(parts), each part a text
RECURSIVE JoinTexts(_, _)
JoinTexts(parts, sep) ==
    IF parts = << >> THEN << >>
    ELSE IF Len(parts) = 1 THEN parts[1]
    ELSE parts[1] \o << sep >> \o JoinTexts(Tail(parts), sep)

\* the keys of successful_responses, in the order of the dict
\* (lines 189-192)
successful_responses(order, responses) ==
    SelectSeq(order, LAMBDA name : Get(responses[name], "success", FALSE))

\* f"{name}: {error_msg}" (lines 198-199)
error_message(name, resp) ==
    << name, ": " >> \o Get(resp, "error", << "Unknown error" >>)

\* a faulty variant: only the first agent's error is reported
NoSuccessFirstError(order, responses) ==
    [success |-> FALSE,
     error |-> << "No agents provided successful responses. Errors: " >>
               \o error_message(order[1], responses[order[1]]),
     agent_responses |-> responses]

\* the response when no agent succeeded (lines 194-205)
NoSuccessResponse(order, responses) ==
    [success |-> FALSE,
     error |-> << "No agents provided successful responses. Errors: " >>
               \o JoinTexts([i \in DOMAIN order |->
                               error_message(order[i], responses[order[i]])],
                            "; "),
     agent_responses |-> responses]

\* response["aggregated_by"] = how
Tagged(resp, how) ==
    [k \in DOMAIN resp \cup { "aggregated_by" } |->
        IF k = "aggregated_by" THEN how ELSE resp[k]]

\* a faulty variant: the answer alone is passed on
SingleResponseAnswerOnly(successful, responses) ==
    [success |-> TRUE, answer |-> responses[successful[1]].answer,
     aggregated_by |-> "single_agent"]

\* the response when one agent succeeded (lines 208-211)
SingleResponse(successful, responses) ==
    Tagged(responses[successful[1]], "single_agent")

\* a faulty variant: every agent that was asked is named as a source
SynthesizedNamingAll(order, successful, responses, text) ==
    [success |-> TRUE, answer |-> text, agent |-> "aggregator_agent",
     aggregated_by |-> "multiple_agents",
     source_agents |-> order,
     agent_responses |-> responses,
     model |-> "model"]

\* the response when the synthesis call returned (lines 248-258)
Synthesized(order, successful, responses, text) ==
    [success |-> TRUE, answer |-> text, agent |-> "aggregator_agent",
     aggregated_by |-> "multiple_agents",
     source_agents |-> successful,
     agent_responses |->
        [n \in { successful[i] : i \in DOMAIN successful } |-> responses[n]],
     model |-> "model"]

\* a faulty variant: the last successful response is the fallback
FallbackLast(successful, responses) ==
    Tagged(responses[successful[Len(successful)]], "fallback")

\* the response when the synthesis failed (lines 260-265)
Fallback(successful, responses) ==
    Tagged(responses[successful[1]], "fallback")

\* a faulty variant: the section of the agent heard last comes first
synthesis_parts_latest_first(order, responses) ==
    LET successful == successful_responses(order, responses)
        n == Len(successful)
    IN  [i \in DOMAIN successful |->
            [agent |-> successful[n + 1 - i],
             answer |-> Get(responses[successful[n + 1 - i]], "answer",
                            << "No answer provided" >>)]]

\* the agent sections of the synthesis prompt (lines 223-226): one for each
\* successful response, in the order of the dict
synthesis_parts(order, responses) ==
    LET successful == successful_responses(order, responses)
    IN  [i \in DOMAIN successful |->
            [agent |-> successful[i],
             answer |-> Get(responses[successful[i]], "answer",
                            << "No answer provided" >>)]]

\* AggregatorAgent._synthesize_responses (lines 171-265), b what the model
\* call does if it is made: the response, and whether the call was made.
\* "\n".join(synthesis_parts) raises TypeError before the call when an
\* answer is None (lines 223-234).
_synthesize_responses(order, responses, b) ==
    LET successful == successful_responses(order, responses)
        prompt_raises ==
            \E i \in DOMAIN successful :
                Get(responses[successful[i]], "answer",
                    << "No answer provided" >>) = None
    IN  IF successful = << >>
        THEN [called |-> FALSE,
              response |-> NoSuccessResponse(order, responses)]
        ELSE IF Len(successful) = 1
        THEN [called |-> FALSE,
              response |-> SingleResponse(successful, responses)]
        ELSE IF prompt_raises
        THEN [called |-> FALSE,
              response |-> Fallback(successful, responses)]
        ELSE IF IsRaise(b)
        THEN [called |-> TRUE,
              response |-> Fallback(successful, responses)]
        ELSE [called |-> TRUE,
              response |-> Synthesized(order, successful, responses, b)]

\* the queries the aggregator is asked, each the sequence of its characters
AggQueries ==
    { << >>,
      << "h", "e", "l", "l", "o" >>,
      << "W", "h", "a", "t", " ", "i", "s", " ", "i", "n", " ", "t", "h", "e", " ", "d", "o", "c", "u", "m", "e", "n", "t", "?" >>,
      << "W", "h", "a", "t", " ", "i", "s", " ", "t", "h", "e", " ", "l", "a", "t", "e", "s", "t", " ", "n", "e", "w", "s", "?" >>,
      << "W", "h", "a", "t", " ", "f", "i", "l", "e", "s", " ", "a", "r", "e", " ", "i", "n", " ", "S", "3", "?" >>,
      << "S", "Q", "L" >>,
      << "D", "A", "T", "A", "B", "A", "S", "E" >>,
      << "c", "l", "o", "u", "d", " ", "s", "t", "o", "r", "a", "g", "e", " ", "o", "n", "l", "i", "n", "e" >>,
      << "D", "a", "t", "a", " ", "W", "a", "r", "e", "h", "o", "u", "s", "e" >>,
      << "r", "e", "m", "o", "t", "e", " ", "t", "a", "b", "l", "e" >>,
      << "s", "e", "a", "r", "c", "h", " ", "l", "o", "c", "a", "l", " ", "c", "l", "o", "u", "d", " ", "s", "q", "l" >> }

\* what the synthesis model call can do: a text, no text, a failure
SynthBehaviours == { << "merged" >>, None, QuotaError }

\* AggregatorAgent.__init__ (lines 18-56)
InitAggregator ==
    /\ agent = [kind |-> "aggregator"]
    /\ snowflake_agent \in BOOLEAN
    /\ selected = << >>
    /\ agent_responses = << >>
    /\ calls = << >>
    /\ orchestrator = NoOrchestrator
    /\ ran = << >>
    /\ max_iterations = 0
    /\ enable_reflection = TRUE
    /\ planner_tools = << >>
    /\ tool_map = << >>
    /\ pc = "idle"
    /\ steps = << >>
    /\ iteration = 0
    /\ prompt = InitialPrompt
    /\ plan = Nil
    /\ llm_log = << >>
    /\ tool_log = << >>
    /\ tools = << >>
    /\ tool_functions = << >>
    /\ messages = << >>
    /\ long_term = << >>
    /\ request = NoRequest
    /\ response = Nil
    /\ raised = FALSE

\* AggregatorAgent.process: the agents are chosen (lines 146-150)
AggProcess(query) ==
    /\ pc = "idle"
    /\ request = NoRequest
    /\ request' = [query |-> query]
    /\ selected' = _select_agents(query, snowflake_agent)
    /\ agent_responses' = << >>
    /\ calls' = << >>
    /\ pc' = "agents"
    /\ UNCHANGED << plannerVars, callVars, agent, tools, tool_functions,
                    messages, long_term, response, raised,
                    snowflake_agent, orchVars >>

\* one turn of the loop over the chosen agents (lines 151-160)
AggCallAgent(outcome) ==
    /\ pc = "agents"
    /\ LET name == selected[Len(calls) + 1] IN
        /\ outcome \in AgentOutcomes(name)
        /\ calls' = Append(calls, [agent |-> name, outcome |-> outcome])
        /\ agent_responses' =
                Put(agent_responses, name, Recorded(name, outcome))
    /\ pc' = AfterAgent(Len(selected), Len(calls'), outcome)
    /\ UNCHANGED << plannerVars, callVars, agentVars, raised,
                    snowflake_agent, selected, orchVars >>

\* the synthesis and the return (lines 162-169)
AggSynthesize(b) ==
    /\ pc = "synthesize"
    /\ \E r \in { _synthesize_responses(
                    [i \in DOMAIN calls |-> calls[i].agent],
                    agent_responses, b) } :
        /\ (b = << >>) = ~ r.called
        /\ response' = r.response
        /\ llm_log' = IF r.called THEN << b >> ELSE << >>
        /\ prompt' = IF r.called
                      THEN [kind |-> "synthesis",
                            sections |->
                                synthesis_parts(
                                    [i \in DOMAIN calls |-> calls[i].agent],
                                    agent_responses)]
                      ELSE prompt
    /\ pc' = "done"
    /\ UNCHANGED << plannerVars, steps, iteration, plan, tool_log,
                    agent, tools, tool_functions, messages, long_term,
                    request, raised, aggVars, orchVars >>

NextAggregator ==
    \/ \E query \in AggQueries : AggProcess(query)
    \/ \E outcome \in { "answer", "no_text", "failure", "raise" } :
            AggCallAgent(outcome)
    \/ \E b \in SynthBehaviours \cup { << >> } : AggSynthesize(b)

SpecAggregator == InitAggregator /\ [][NextAggregator]_vars

-----------------------------------------------------------------------------
(* Orchestrator.process_query and its three pipelines *)

\* the tier values process_query is called with, each the sequence of its
\* characters
Tiers ==
    { << "b", "a", "s", "i", "c" >>,
      << "a", "g", "e", "n", "t" >>,
      << "a", "d", "v", "a", "n", "c", "e", "d" >>,
      << "B", "A", "S", "I", "C" >>,
      << "A", "d", "v", "a", "n", "c", "e", "d" >>,
      << "p", "r", "e", "m", "i", "u", "m" >>,
      << >> }

\* Tier(tier.lower()) (lines 21-25, 70): the member's value, or "invalid"
\* where Enum raises ValueError
TierOf(tier) ==
    LET value == lower(tier) IN
    IF value = << "b", "a", "s", "i", "c" >> THEN "basic"
    ELSE IF value = << "a", "g", "e", "n", "t" >> THEN "agent"
    ELSE IF value = << "a", "d", "v", "a", "n", "c", "e", "d" >>
    THEN "advanced"
    ELSE "invalid"

\* the response of a pipeline without a model credential (lines 102-107,
\* 185-190, 244-249)
KeyMissing(tier) ==
    [success |-> FALSE,
     error |-> << "OpenAI API key not configured. Please set OPENAI_API_KEY in your .env file." >>,
     tier |-> tier]

\* the response of a pipeline's except branch (lines 169-175, 228-234,
\* 273-279)
PipelineError(tier, text) ==
    [success |-> FALSE, error |-> << "Error processing query: " >> \o text,
     tier |-> tier]

\* {**response, "tier": tier} (lines 223-226, 268-271)
WithTier(resp, tier) ==
    [k \in DOMAIN resp \cup { "tier" } |->
        IF k = "tier" THEN tier ELSE resp[k]]

\* what one call meets: the vector store's search, the model call of the
\* basic pipeline, the construction of an agent, and the agent's process
Runs(o, tier) ==
    IF ~ o.openai_api_key \/ TierOf(tier) = "invalid"
    THEN { [search |-> "-", model |-> << >>, construct |-> "-",
            process |-> "-"] }
    ELSE IF TierOf(tier) = "basic"
    THEN { [search |-> s, model |-> IF s = "raise" THEN << >> ELSE b,
            construct |-> "-", process |-> "-"] :
                s \in { "documents", "none", "raise" },
                b \in { << "answer" >>, None, QuotaError, AuthError,
                        NetError } }
    ELSE { [search |-> "-", model |-> << >>, construct |-> c,
            process |-> IF c = "raise" THEN "-" ELSE p] :
                c \in IF (TierOf(tier) = "agent" /\ o.local_agent)
                         \/ (TierOf(tier) = "advanced" /\ o.aggregator_agent)
                      THEN { "-" } ELSE { "ok", "raise" },
                p \in { "answer", "failure" } }

\* Orchestrator._process_basic_rag (lines 94-175)
_process_basic_rag(o, run) ==
    LET api_error(text) ==
            IF text = ErrText(QuotaError)
            THEN << "OpenAI API quota exceeded. Please check your billing and plan details." >>
            ELSE IF text = ErrText(AuthError)
            THEN << "Invalid OpenAI API key. Please check your .env file." >>
            ELSE << "OpenAI API error: " >> \o text
    IN  IF ~ o.openai_api_key
        THEN [response |-> KeyMissing("basic"), ran |-> << >>,
              orchestrator |-> o]
        ELSE IF run.search = "raise"
        THEN [response |-> PipelineError("basic", << "store down" >>),
              ran |-> << "search" >>, orchestrator |-> o]
        ELSE IF IsRaise(run.model)
        THEN [response |->
                PipelineError("basic", api_error(ErrText(run.model))),
              ran |-> << "search", "model" >>, orchestrator |-> o]
        ELSE [response |->
                [success |-> TRUE, answer |-> run.model, tier |-> "basic",
                 sources |-> IF run.search = "documents"
                             THEN << "doc1" >> ELSE << >>,
                 model |-> "model"],
              ran |-> << "search", "model" >>, orchestrator |-> o]

\* a faulty variant: the agent is built and asked before the credential is
\* looked at
_process_agent_with_tools_unchecked(o, run) ==
    [response |-> WithTier(Recorded("local", run.process), "agent"),
     ran |-> (IF o.local_agent THEN << >> ELSE << "LocalDataAgent" >>)
             \o << "add_tool", "local.process" >>,
     orchestrator |->
        [o EXCEPT !.local_agent = TRUE,
                  !.built = IF o.local_agent THEN @ ELSE Append(@, "local")]]

\* Orchestrator._process_agent_with_tools (lines 177-234)
_process_agent_with_tools(o, run) ==
    IF ~ o.openai_api_key
    THEN [response |-> KeyMissing("agent"), ran |-> << >>,
          orchestrator |-> o]
    ELSE IF ~ o.local_agent /\ run.construct = "raise"
    THEN [response |-> PipelineError("agent", << "cannot build" >>),
          ran |-> << "LocalDataAgent" >>, orchestrator |-> o]
    ELSE [response |-> WithTier(Recorded("local", run.process), "agent"),
          ran |-> (IF o.local_agent THEN << >> ELSE << "LocalDataAgent" >>)
                  \o << "add_tool", "local.process" >>,
          orchestrator |->
            [o EXCEPT !.local_agent = TRUE,
                      !.built = IF o.local_agent THEN @
                                ELSE Append(@, "local")]]

\* a faulty variant: every advanced request builds an aggregator of its own
_process_advanced_agentic_rebuilding(o, run) ==
    IF ~ o.openai_api_key
    THEN [response |-> KeyMissing("advanced"), ran |-> << >>,
          orchestrator |-> o]
    ELSE [response |->
            WithTier(_synthesize_responses(
                        << "local", "search" >>,
                        [n \in { "local", "search" } |->
                            Recorded(n, IF run.process = "-" THEN "failure"
                                        ELSE run.process)],
                        << "merged" >>).response,
                     "advanced"),
          ran |-> << "AggregatorAgent", "aggregator.process" >>,
          orchestrator |->
            [o EXCEPT !.aggregator_agent = TRUE,
                      !.built = Append(@, "aggregator")]]

\* Orchestrator._process_advanced_agentic (lines 236-279); the response of
\* the aggregator is the one it gives when local and search both answered,
\* or both failed
_process_advanced_agentic(o, run) ==
    IF ~ o.openai_api_key
    THEN [response |-> KeyMissing("advanced"), ran |-> << >>,
          orchestrator |-> o]
    ELSE IF ~ o.aggregator_agent /\ run.construct = "raise"
    THEN [response |-> PipelineError("advanced", << "cannot build" >>),
          ran |-> << "AggregatorAgent" >>, orchestrator |-> o]
    ELSE [response |->
            WithTier(_synthesize_responses(
                        << "local", "search" >>,
                        [n \in { "local", "search" } |->
                            Recorded(n, run.process)],
                        << "merged" >>).response,
                     "advanced"),
          ran |-> (IF o.aggregator_agent THEN << >>
                   ELSE << "AggregatorAgent" >>)
                  \o << "aggregator.process" >>,
          orchestrator |->
            [o EXCEPT !.aggregator_agent = TRUE,
                      !.built = IF o.aggregator_agent THEN @
                                ELSE Append(@, "aggregator")]]

\* a faulty variant: a tier that is not known is served by the basic
\* pipeline
process_query_defaulting(o, tier, run) ==
    CASE TierOf(tier) = "agent"    -> _process_agent_with_tools(o, run)
      [] TierOf(tier) = "advanced" -> _process_advanced_agentic(o, run)
      [] OTHER                     -> _process_basic_rag(o, run)

\* Orchestrator.process_query (lines 52-92)
process_query(o, tier, run) ==
    CASE TierOf(tier) = "basic"    -> _process_basic_rag(o, run)
      [] TierOf(tier) = "agent"    -> _process_agent_with_tools(o, run)
      [] TierOf(tier) = "advanced" -> _process_advanced_agentic(o, run)
      [] OTHER ->
            [response |-> [success |-> FALSE,
                           error |-> << "Invalid tier: " >> \o tier],
             ran |-> << >>, orchestrator |-> o]

\* Orchestrator.__init__ (lines 31-50)
InitOrchestrator ==
    /\ orchestrator \in
        { [kind |-> "orchestrator", openai_api_key |-> k,
           local_agent |-> FALSE, aggregator_agent |-> FALSE,
           built |-> << >>, requests |-> 0] : k \in BOOLEAN }
    /\ ran = << >>
    /\ agent = NoAgent
    /\ snowflake_agent = FALSE
    /\ selected = << >>
    /\ agent_responses = << >>
    /\ calls = << >>
    /\ max_iterations = 0
    /\ enable_reflection = TRUE
    /\ planner_tools = << >>
    /\ tool_map = << >>
    /\ pc = "idle"
    /\ steps = << >>
    /\ iteration = 0
    /\ prompt = InitialPrompt
    /\ plan = Nil
    /\ llm_log = << >>
    /\ tool_log = << >>
    /\ tools = << >>
    /\ tool_functions = << >>
    /\ messages = << >>
    /\ long_term = << >>
    /\ request = NoRequest
    /\ response = Nil
    /\ raised = FALSE

\* one call of process_query, to its return
OrchProcessQuery(tier, run) ==
    /\ pc = "idle"
    /\ orchestrator.requests < MaxRequests
    /\ \E r \in { process_query(orchestrator, tier, run) } :
        /\ response' = r.response
        /\ ran' = r.ran
        /\ orchestrator' = [r.orchestrator EXCEPT !.requests = @ + 1]
    /\ request' = [query |-> TheQuery, tier |-> tier, run |-> run]
    /\ llm_log' = IF run.model = << >> THEN << >> ELSE << run.model >>
    /\ pc' = "done"
    /\ UNCHANGED << plannerVars, steps, iteration, prompt, plan, tool_log,
                    agent, tools, tool_functions, messages, long_term,
                    raised, aggVars >>

\* the caller has the response
OrchReturn ==
    /\ pc = "done"
    /\ pc' = "idle"
    /\ request' = NoRequest
    /\ response' = Nil
    /\ ran' = << >>
    /\ llm_log' = << >>
    /\ UNCHANGED << plannerVars, steps, iteration, prompt, plan, tool_log,
                    agent, tools, tool_functions, messages, long_term,
                    raised, aggVars, orchestrator >>

NextOrchestrator ==
    \/ \E call \in UNION { { [tier |-> tier, run |-> run] :
                                run \in Runs(orchestrator, tier) } :
                            tier \in Tiers } :
            OrchProcessQuery(call.tier, call.run)
    \/ OrchReturn

SpecOrchestrator == InitOrchestrator /\ [][NextOrchestrator]_vars

-----------------------------------------------------------------------------
(* Properties of ReActPlanner.plan, checked under SpecReAct *)

\* whether v is a text the model returned (not None, not a failure)
IsText(v) == ~ IsRaise(v) /\ v # None

\* no model response of the call contains "Final Answer:"
NoFinalMarker ==
    \A i \in DOMAIN llm_log : ~ Contains(llm_log[i], << FA >>)

\* C1: for max_iterations = N >= 0, when no model response contains
\* "Final Answer:", plan makes exactly N model calls in N iterations (never
\* more while it runs) and returns final_answer = None, iterations = N and
\* status "max_iterations_reached" with the steps gathered so far.
C1_ExhaustsAfterN ==
    /\ (pc = "react" /\ NoFinalMarker) =>
          (Len(llm_log) < max_iterations /\ iteration = Len(llm_log))
    /\ (pc = "returned" /\ NoFinalMarker) =>
          /\ Len(llm_log) = max_iterations
          /\ iteration = max_iterations
          /\ "status" \in DOMAIN plan
          /\ plan.status = "max_iterations_reached"
          /\ plan.final_answer = None
          /\ plan.iterations = max_iterations
          /\ plan.steps = steps

C1_Witness ==
    /\ pc = "returned"
    /\ NoFinalMarker
    /\ max_iterations >= 2
    /\ Len(llm_log) = max_iterations
    /\ \E i \in DOMAIN steps : steps[i].type = "action"
    /\ \E i \in DOMAIN llm_log : IsRaise(llm_log[i])

\* the first model response is "Final Answer: X"
FirstIsFinalAnswer ==
    /\ llm_log # << >>
    /\ IsText(llm_log[1])
    /\ StartsWith(llm_log[1], << FA, WS >>)

\* C2: when the first model response is "Final Answer: X", plan returns
\* after one iteration (one model call, no tool call) with final_answer
\* equal to X trimmed of whitespace and iterations = 1.
C2_FirstFinalAnswerReturnsX ==
    FirstIsFinalAnswer =>
        /\ pc = "returned"
        /\ Len(llm_log) = 1
        /\ tool_log = << >>
        /\ plan.final_answer = Strip(Drop(llm_log[1], 2))
        /\ plan.iterations = 1

-----------------------------------------------------------------------------
(* Properties of CoTPlanner.plan, checked under SpecCoT *)

\* the first model response is "Conclusion: X"
FirstIsConclusion ==
    /\ llm_log # << >>
    /\ IsText(llm_log[1])
    /\ StartsWith(llm_log[1], CONCL \o << WS >>)

\* C3: when the first model response is "Conclusion: X", plan returns at
\* once (one model call, no reflection call) with conclusion equal to X and
\* total_steps = 1.
C3_FirstConclusionReturnsX ==
    FirstIsConclusion =>
        /\ pc = "returned"
        /\ Len(llm_log) = 1
        /\ plan.conclusion = Drop(llm_log[1], 3)
        /\ plan.total_steps = 1

\* no model response of the call contains "Conclusion:"
NoConclusionMarker ==
    \A i \in DOMAIN llm_log : ~ Contains(llm_log[i], CONCL)

\* no model response of the call, trimmed, starts with "Conclusion"
NoConclusionStart ==
    \A i \in DOMAIN llm_log : ~ StartsWith(Strip(llm_log[i]), << CN >>)

\* the call returned conclusion = None, total_steps = N and the status
ReturnedMaxSteps ==
    /\ "status" \in DOMAIN plan
    /\ plan.status = "max_steps_reached"
    /\ plan.conclusion = None
    /\ plan.total_steps = max_iterations
    /\ iteration = max_iterations

-----------------------------------------------------------------------------
(* Properties of tool invocation *)

\* the observation step that follows the action step steps[i], if any
ObservationOf(i) ==
    IF i + 1 \in DOMAIN steps /\ steps[i + 1].type = "observation"
    THEN steps[i + 1].content
    ELSE None

\* C6 (under SpecReAct): _execute_action never raises to the planner.  An
\* Action naming a tool that is not registered is followed by an observation
\* that is an error naming the tool; an Action naming a registered tool
\* whose function raises is followed by the observation "Error executing
\* <name>: " and the error text; and after such an iteration the loop goes
\* on, unless the iterations are used up.
C6_ToolFailureIsObservation ==
    /\ raised => steps = << >>
    /\ \A i \in DOMAIN steps :
          steps[i].type = "action" =>
             LET name   == steps[i].action
                 keys   == ToolKeys(tool_map, name)
                 tool   == tool_map[CHOOSE n \in keys : TRUE]
                 params == ActionParams(Get(steps[i], "input", << >>))
             IN  /\ ObservationOf(i) # None
                 /\ keys = {} =>
                       ObservationOf(i) =
                          << "Error: Tool '" >> \o name \o << "' not found" >>
                 /\ (/\ keys # {}
                     /\ "function" \in DOMAIN tool
                     /\ IsRaise(CallResult(tool.function, params))) =>
                       ObservationOf(i) =
                          << "Error executing " >> \o name \o << ": " >>
                             \o ErrText(CallResult(tool.function, params))
    /\ (steps # << >> /\ steps[Len(steps)].type = "observation") =>
          \/ pc = "react" /\ plan = Nil /\ iteration < max_iterations
          \/ /\ pc = "returned"
             /\ iteration = max_iterations
             /\ plan.final_answer = None

C6_Witness ==
    /\ Len(steps) = 4
    /\ "failing" \in DOMAIN tool_map
    /\ "function" \in DOMAIN tool_map["failing"]
    /\ steps[1].type = "action"
    /\ steps[1].action = << "failing" >>
    /\ steps[2].content = << "Error executing ", "failing", ": ",
                             "failure of", "failing" >>
    /\ steps[3].type = "action"
    /\ steps[3].action = << "missing" >>
    /\ steps[4].content = << "Error: Tool '", "missing", "' not found" >>

\* C5 (under Spec): for a tool registered through BaseAgent.add_tool, an
\* Action step of the agent's ReAct planner that names the tool invokes the
\* registered function with the parsed input, and the Observation appended
\* carries the function's result.
C5_RegisteredFunctionInvoked ==
    \A i \in DOMAIN steps :
       (steps[i].type = "action"
           /\ ToolKeys(tool_functions, steps[i].action) # {}) =>
          LET fn == tool_functions[CHOOSE n \in ToolKeys(tool_functions,
                                                         steps[i].action) : TRUE]
              params == ActionParams(Get(steps[i], "input", << >>))
          IN  /\ \E k \in DOMAIN tool_log :
                    tool_log[k].fn = fn.id /\ tool_log[k].params = params
              /\ IsText(CallResult(fn, params)) =>
                    ObservationOf(i) = CallResult(fn, params)

\* a list of tool dicts holds one entry per name
OneEntryPerName(list) ==
    \A i, j \in DOMAIN list : list[i].name = list[j].name => i = j

\* C7 (under Spec): after any sequence of registrations the tool catalogue
\* of the agent and that of its planner hold one entry per tool name, with
\* a capability filed under each name.
C7_OneEntryPerToolName ==
    /\ OneEntryPerName(tools)
    /\ OneEntryPerName(planner_tools)
    /\ \A i \in DOMAIN tools : tools[i].name \in DOMAIN tool_functions

-----------------------------------------------------------------------------
(* Properties of process(), checked under Spec *)

LastCall == llm_log[Len(llm_log)]

\* a model call of this request raised
ModelCallFailed == \E i \in DOMAIN llm_log : IsRaise(llm_log[i])

\* the retrieval of this request failed
RetrievalFailed ==
    /\ agent.kind \in { "local", "search", "cloud" }
    /\ request.retrieval = "failed"

\* the long-term store failed during this request
LongTermFailed ==
    /\ "store_ok" \in DOMAIN request
    /\ ~ request.store_ok

\* the response is the failure response: success = false, an error string
\* and the agent's name
IsFailureResponse ==
    /\ { "success", "error", "agent" } \subseteq DOMAIN response
    /\ response.success = FALSE
    /\ IsText(response.error)
    /\ response.agent = AgentName(agent.kind)

\* C8 as stated: whenever the model call, the memory, the planner or the
\* retrieval fails during a call of process, the call returns the failure
\* response.
C8_EveryFailureFails ==
    (pc = "done" /\ (ModelCallFailed \/ RetrievalFailed \/ LongTermFailed)) =>
        IsFailureResponse

\* C8 amended: process never raises to its caller: every call returns a
\* response with a success flag and the agent's name, and a response with
\* success = false has an error string.  The response has success = false
\* when the model call of the direct path fails, when SnowflakeAgent's SQL
\* call fails, and when short-term memory holds a content it cannot
\* encode.  (A failed retrieval, a failed long-term store and a failed model
\* call inside a planner are absorbed where they happen.)
C8_NeverRaises ==
    pc = "done" =>
        /\ { "success", "agent" } \subseteq DOMAIN response
        /\ response.success \in BOOLEAN
        /\ response.agent = AgentName(agent.kind)
        /\ ~ response.success => IsFailureResponse
        /\ (agent.planning = "none" /\ llm_log # << >> /\ IsRaise(LastCall)) =>
              IsFailureResponse
        /\ (agent.use_memory
              /\ \E i \in DOMAIN messages : messages[i].content = None) =>
              IsFailureResponse

C8_Witness ==
    /\ pc = "done"
    /\ agent.kind = "local"
    /\ agent.planning = "none"
    /\ RetrievalFailed
    /\ llm_log = << QuotaError >>
    /\ response.success = FALSE
    /\ response.error = DirectError(ErrText(QuotaError))

\* the planner of this request ended without a terminal step
PlanExhausted ==
    /\ plan # Nil
    /\ "status" \in DOMAIN plan
    /\ plan.status \in { "max_iterations_reached", "max_steps_reached" }

\* C9: when the planner ends without a terminal step, the answer of the
\* response is the fixed string "I couldn't find a complete answer."
C9_ExhaustedGivesDefaultAnswer ==
    (pc = "done" /\ PlanExhausted) =>
        /\ "answer" \in DOMAIN response
        /\ response.answer = DefaultAnswer

\* C10: every response of process has a non-null answer string when
\* success = true and a non-null error string when success = false.
C10_AnswerOrError ==
    pc = "done" =>
        /\ response.success => ("answer" \in DOMAIN response
                                   /\ IsText(response.answer))
        /\ ~ response.success => ("error" \in DOMAIN response
                                     /\ IsText(response.error))

-----------------------------------------------------------------------------
(* Properties of model failures, sessions and retrieval, under Spec *)

\* the failures of the model service: quota, authentication, network
ExternalFailures == { QuotaError, AuthError, NetError }

\* C11 as stated: when a model call of a request fails with a failure of
\* the service, the response is the failure response and no model call
\* follows the failed one, in the direct path and in the planning path.
C11_FailureSurfacesNoRetry ==
    pc = "done" =>
        \A i \in DOMAIN llm_log :
            llm_log[i] \in ExternalFailures =>
                (IsFailureResponse /\ i = Len(llm_log))

\* C11 amended: when the model call of the direct path fails with a failure
\* of the service, the response has success = false with the short message
\* for that failure, and that call is the last model call of the request.
\* In the planning path the planner records the failure and goes on: it
\* stops after a failed call only when its iterations are used up.
C11_DirectFailureSurfaces ==
    pc = "done" =>
        /\ (request.direct_call /\ LastCall \in ExternalFailures) =>
              /\ IsFailureResponse
              /\ LastCall = QuotaError =>
                    response.error = << "OpenAI API quota exceeded. Please check your billing and plan details." >>
              /\ LastCall = AuthError =>
                    response.error = << "Invalid OpenAI API key. Please check your .env file." >>
              /\ LastCall = NetError => response.error = ErrText(NetError)
              /\ agent.kind # "snowflake" => Len(llm_log) = 1
              /\ \A i \in DOMAIN messages : messages[i].role = "assistant" =>
                    messages[i].timestamp < agent.calls
        /\ (agent.planning # "none" /\ llm_log # << >> /\ IsRaise(LastCall)) =>
              iteration = max_iterations

C11_Witness ==
    /\ pc = "done"
    /\ request.direct_call
    /\ agent.kind = "search"
    /\ LastCall = AuthError
    /\ response.success = FALSE

\* the session of the call that made message m
SessionOf(m) == agent.served[m.timestamp]

\* every message of msgs was made by a call under session s (calls made
\* without a session aside)
OnlyFrom(msgs, s) ==
    \A i \in DOMAIN msgs :
        "timestamp" \in DOMAIN msgs[i] => SessionOf(msgs[i]) \in { s, None }

\* C12: sessions are isolated: the messages sent to the model for a call
\* under session s, and the conversation stored in long-term memory under
\* s, hold only messages of calls made under s.
C12_SessionsIsolated ==
    /\ (pc = "done" /\ request.session_id # None) =>
          OnlyFrom(request.history, request.session_id)
    /\ \A k \in DOMAIN long_term :
          OnlyFrom(long_term[k].messages, long_term[k].session_id)

\* the words of the text retrieve_context returns for a failed source
FailureWords(kind) ==
    CASE kind = "local"  -> << "Error retrieving local documents: " >>
      [] kind = "search" -> << "Error performing web search: " >>
      [] kind = "cloud"  -> << "Cloud storage is not configured." >>
      [] OTHER -> << >>

-----------------------------------------------------------------------------
(* Properties of AggregatorAgent, checked under SpecAggregator *)

\* the queries of test_select_agents
DocumentQuery == << "W", "h", "a", "t", " ", "i", "s", " ", "i", "n", " ", "t", "h", "e", " ", "d", "o", "c", "u", "m", "e", "n", "t", "?" >>
NewsQuery == << "W", "h", "a", "t", " ", "i", "s", " ", "t", "h", "e", " ", "l", "a", "t", "e", "s", "t", " ", "n", "e", "w", "s", "?" >>
S3Query == << "W", "h", "a", "t", " ", "f", "i", "l", "e", "s", " ", "a", "r", "e", " ", "i", "n", " ", "S", "3", "?" >>

\* name is one of the names in the list
InList(name, list) == \E i \in DOMAIN list : list[i] = name

NoneSucceeded ==
    \A i \in DOMAIN calls : calls[i].outcome \in { "failure", "raise" }

\* "<agent name>: <that agent's error>" for the i-th call
FailureEntry(i) ==
    << calls[i].agent, ": " >>
    \o (IF calls[i].outcome = "raise"
        THEN << "crash of ", calls[i].agent >>
        ELSE << "error of ", calls[i].agent >>)

Succeeded ==
    SelectSeq(calls, LAMBDA c : c.outcome \in { "answer", "no_text" })

\* a response without its aggregated_by tag
Untagged(resp) == [k \in DOMAIN resp \ { "aggregated_by" } |-> resp[k]]

\* C16: when exactly one selected agent succeeded and every other one
\* failed, process returns that agent's response, every field of it as the
\* agent returned it, with aggregated_by = "single_agent" added, and no
\* synthesis model call is made.
C16_SinglePassedThrough ==
    (pc = "done" /\ Len(Succeeded) = 1) =>
        LET only == Succeeded[1] IN
        /\ Untagged(response) = agent_responses[only.agent]
        /\ response.success
        /\ response.agent = AgentName(only.agent)
        /\ response.model = "model"
        /\ response.answer = IF only.outcome = "answer"
                             THEN << "answer of ", only.agent >> ELSE None
        /\ response.aggregated_by = "single_agent"
        /\ llm_log = << >>

\* the second of three agents was the only one to succeed
C16_Witness ==
    /\ pc = "done"
    /\ Len(calls) >= 3
    /\ Len(Succeeded) = 1
    /\ calls[2].outcome = "answer"
    /\ response.aggregated_by = "single_agent"

\* the names of the agents that succeeded
SucceededNames == { Succeeded[i].agent : i \in DOMAIN Succeeded }

\* the synthesis model call was made and returned
SynthesisReturned == llm_log # << >> /\ ~ IsRaise(llm_log[1])

\* C17: when two or more selected agents succeeded, the synthesis model
\* call is made exactly once if every answer is a text, and when the call
\* returned, process returns success = true with what the model returned
\* as answer, aggregated_by = "multiple_agents", source_agents the set of
\* the names of the agents that succeeded, and their responses attached
\* under those names.
C17_SynthesisOfMany ==
    (pc = "done" /\ Len(Succeeded) >= 2) =>
        /\ (\A i \in DOMAIN Succeeded : Succeeded[i].outcome = "answer")
                => Len(llm_log) = 1
        /\ SynthesisReturned =>
            /\ Len(llm_log) = 1
            /\ response.success
            /\ response.answer = llm_log[1]
            /\ response.aggregated_by = "multiple_agents"
            /\ { response.source_agents[i] :
                    i \in DOMAIN response.source_agents } = SucceededNames
            /\ Len(response.source_agents) = Len(Succeeded)
            /\ DOMAIN response.agent_responses = SucceededNames
            /\ \A n \in SucceededNames :
                    response.agent_responses[n] = agent_responses[n]

\* two agents answered, a third failed, and the model merged the answers
C17_Witness ==
    /\ pc = "done"
    /\ Len(calls) >= 3
    /\ Len(Succeeded) = 2
    /\ llm_log = << << "merged" >> >>
    /\ response.answer = << "merged" >>

\* C18: when two or more selected agents succeeded and the synthesis model
\* call raised, process returns the response of the first agent, in the
\* order the agents were called, that succeeded, with aggregated_by =
\* "fallback" added, and so a response with success = true.
C18_FallbackIsFirst ==
    (pc = "done" /\ Len(Succeeded) >= 2
        /\ llm_log # << >> /\ IsRaise(llm_log[1])) =>
        LET first == Succeeded[1] IN
        /\ response.success
        /\ Untagged(response) = agent_responses[first.agent]
        /\ response.agent = AgentName(first.agent)
        /\ response.answer = << "answer of ", first.agent >>
        /\ response.aggregated_by = "fallback"
        /\ ~ raised

\* the first agent failed, the next two answered, the synthesis call raised
C18_Witness ==
    /\ pc = "done"
    /\ Len(calls) >= 3
    /\ calls[1].outcome \in { "failure", "raise" }
    /\ Len(Succeeded) = 2
    /\ llm_log = << QuotaError >>
    /\ response.aggregated_by = "fallback"

\* C19: once the loop over the selected agents has ended, the process of
\* every selected agent was called exactly once, in the order of the
\* selection, whatever the other agents did, and every agent that raised
\* or returned a failure has a failure with its error recorded under its
\* own name; while the loop runs, the agents called so far are the first
\* of the selection.
C19_EveryAgentCalledOnce ==
    /\ pc = "agents" =>
        /\ Len(calls) < Len(selected)
        /\ \A i \in DOMAIN calls : calls[i].agent = selected[i]
    /\ pc \in { "synthesize", "done" } =>
        /\ Len(calls) = Len(selected)
        /\ \A i \in DOMAIN calls : calls[i].agent = selected[i]
        /\ \A i, j \in DOMAIN calls :
                calls[i].agent = calls[j].agent => i = j
        /\ DOMAIN agent_responses = { calls[i].agent : i \in DOMAIN calls }
        /\ \A i \in DOMAIN calls :
            LET recorded == agent_responses[calls[i].agent] IN
            /\ calls[i].outcome = "raise" =>
                /\ recorded.success = FALSE
                /\ recorded.error = << "crash of ", calls[i].agent >>
            /\ calls[i].outcome = "failure" =>
                /\ recorded.success = FALSE
                /\ recorded.error = << "error of ", calls[i].agent >>
            /\ calls[i].outcome \in { "answer", "no_text" } =>
                recorded.success

\* the first agent raised, the second answered, the third returned a
\* failure, and a fourth agent was still called
C19_Witness ==
    /\ pc = "done"
    /\ Len(calls) = 4
    /\ calls[1].outcome = "raise"
    /\ calls[2].outcome = "answer"
    /\ calls[3].outcome = "failure"

-----------------------------------------------------------------------------
(* Properties of Orchestrator.process_query, checked under SpecOrchestrator *)

\* the three tier values
TierValues ==
    { << "b", "a", "s", "i", "c" >>,
      << "a", "g", "e", "n", "t" >>,
      << "a", "d", "v", "a", "n", "c", "e", "d" >> }

\* the invalid-tier failure for the tier of the call, and no pipeline run:
\* no retrieval, no model call, no agent constructed or called
InvalidTierFailure ==
    /\ response.success = FALSE
    /\ response.error = << "Invalid tier: " >> \o request.tier
    /\ ran = << >>
    /\ llm_log = << >>

\* C20 as stated: a call of process_query with a tier value other than
\* basic, agent or advanced returns the invalid-tier failure and runs no
\* pipeline.
C20_UnknownTierFails ==
    (pc = "done" /\ request.tier \notin TierValues) => InvalidTierFailure

\* C20 amended: a call of process_query with a tier value that is none of
\* basic, agent and advanced in any letter case returns the invalid-tier
\* failure (success = false, the error naming the tier as it was given)
\* and runs no pipeline; a tier that differs from one of the three only in
\* letter case is served by that tier's pipeline.
C20_UnknownTierFailsAnyCase ==
    pc = "done" =>
        /\ lower(request.tier) \notin TierValues => InvalidTierFailure
        /\ request.tier = << "p", "r", "e", "m", "i", "u", "m" >>
                => response.error = << "Invalid tier: " >> \o << "p", "r", "e", "m", "i", "u", "m" >>
        /\ lower(request.tier) \in TierValues =>
                /\ "tier" \in DOMAIN response
                /\ response.tier \in { "basic", "agent", "advanced" }

\* an orchestrator with a credential that has served a request is asked
\* for a tier it does not know
C20_Witness ==
    /\ pc = "done"
    /\ request.tier = << "p", "r", "e", "m", "i", "u", "m" >>
    /\ orchestrator.openai_api_key
    /\ orchestrator.requests = 2
    /\ orchestrator.built # << >>
    /\ ~ response.success
    /\ ran = << >>

\* C21: every response process_query returns, on every tier value and on
\* every path, carries the fields success and tier.
C21_ResponseHasSuccessAndTier ==
    pc = "done" =>
        /\ "success" \in DOMAIN response
        /\ "tier" \in DOMAIN response

\* the answer to a request that names one of the three tiers
NamedTier ==
    CASE lower(request.tier) = << "b", "a", "s", "i", "c" >> -> "basic"
      [] lower(request.tier) = << "a", "g", "e", "n", "t" >> -> "agent"
      [] lower(request.tier) =
            << "a", "d", "v", "a", "n", "c", "e", "d" >> -> "advanced"
      [] OTHER -> "none"

\* C22: when no model credential is configured, a request on any of the
\* three tiers returns success = false with the message about
\* OPENAI_API_KEY and the tier of the request, nothing is raised, the model
\* is not called, and no agent is constructed or called, in that call or
\* in any call before it.
C22_NoCredentialFailsEarly ==
    (pc = "done" /\ ~ orchestrator.openai_api_key /\ NamedTier # "none") =>
        /\ response.success = FALSE
        /\ response.error = << "OpenAI API key not configured. Please set OPENAI_API_KEY in your .env file." >>
        /\ response.tier = NamedTier
        /\ DOMAIN response = { "success", "error", "tier" }
        /\ ~ raised
        /\ ran = << >>
        /\ llm_log = << >>
        /\ orchestrator.built = << >>
        /\ ~ orchestrator.local_agent
        /\ ~ orchestrator.aggregator_agent

\* the second request on an orchestrator without a credential asks for the
\* agent tier
C22_Witness ==
    /\ pc = "done"
    /\ ~ orchestrator.openai_api_key
    /\ orchestrator.requests = 2
    /\ NamedTier = "agent"
    /\ response.tier = "agent"
    /\ ~ response.success

-----------------------------------------------------------------------------
(* More properties of the planners, checked under SpecReAct and SpecCoT *)

\* C23: a model response that holds the marker "Final Answer:" anywhere
\* is parsed as a final answer step and ends the loop in its iteration: it
\* is the last model call, the plan returned reports that iteration with a
\* final answer step as its last step, and the iteration calls no tool.
C23_MarkerAnywhereEnds ==
    \A i \in DOMAIN llm_log :
        (IsText(llm_log[i]) /\ Contains(llm_log[i], << FA >>)) =>
            /\ i = Len(llm_log)
            /\ plan # Nil
            /\ "status" \notin DOMAIN plan
            /\ plan.iterations = i
            /\ steps # << >>
            /\ steps[Len(steps)].type = "final_answer"

\* a final answer step of ReAct or a conclusion step of CoT
IsFinalStep(st) == st.type \in { "final_answer", "conclusion" }

\* the trace the returned plan carries
TraceOf(p) == IF "steps" \in DOMAIN p THEN p.steps ELSE p.reasoning_steps

\* a final step is the last step of the trace of a call that has returned
FinalStepIsLast ==
    \A i \in DOMAIN steps :
        IsFinalStep(steps[i]) =>
            /\ i = Len(steps)
            /\ pc = "returned"
            /\ plan # Nil
            /\ "status" \notin DOMAIN plan
            /\ TraceOf(plan) = steps

\* the step that appends a final step returns, with the one model call
\* that produced the step and no tool call; nothing is done after a return
EndsAtOnce ==
    /\ (steps' # steps /\ IsFinalStep(steps'[Len(steps')])) =>
            /\ pc' = "returned"
            /\ Len(steps') = Len(steps) + 1
            /\ Len(llm_log') = Len(llm_log) + 1
            /\ tool_log' = tool_log
    /\ pc = "returned" =>
            /\ steps' = steps
            /\ llm_log' = llm_log
            /\ tool_log' = tool_log

\* C24: in both planners, once a final answer step (ReAct) or a conclusion
\* step (CoT) has been appended the loop ends at once: the step is the last
\* of the returned trace, and no model call, tool call or reflection call
\* is made after it.
C24_FinalStepEndsLoop == [] FinalStepIsLast /\ [][EndsAtOnce]_vars

\* a CoT plan with reflection enabled concluded in the iteration of index
\* 3, where a reflection would have been due
C24_Witness ==
    /\ pc = "returned"
    /\ enable_reflection
    /\ iteration = 4
    /\ Len(llm_log) = 4
    /\ steps[Len(steps)].type = "conclusion"

\* C25: in every state of a planning call the loop counter is at most the
\* configured bound; ReActPlanner.plan has made at most max_iterations
\* model calls and reports iterations <= max_iterations, and
\* CoTPlanner.plan reports total_steps <= max_steps.
C25_CountersWithinBound ==
    /\ iteration <= max_iterations
    /\ pc \in { "react", "cot" } => iteration < max_iterations
    /\ pc = "react" => Len(llm_log) <= max_iterations
    /\ (plan # Nil /\ "iterations" \in DOMAIN plan) =>
            /\ plan.iterations <= max_iterations
            /\ Len(llm_log) <= max_iterations
            /\ Len(llm_log) <= plan.iterations
    /\ (plan # Nil /\ "total_steps" \in DOMAIN plan) =>
            plan.total_steps <= max_iterations

\* a ReAct plan whose trace is longer than the bound: an action with its
\* observation, then the final answer in the last iteration allowed
C25_Witness ==
    /\ pc = "returned"
    /\ "iterations" \in DOMAIN plan
    /\ plan.iterations = 2
    /\ max_iterations = 2
    /\ Len(steps) = 3
    /\ steps[3].type = "final_answer"

\* the model call of iteration i raised, or returned what cannot be parsed
CallFailed(i) == IsRaise(llm_log[i]) \/ llm_log[i] = None

\* the observation step the failed iteration i appends
ErrorObservation(i) ==
    [type |-> "observation",
     content |-> << "Error: " >>
                 \o (IF llm_log[i] = None
                     THEN << "'NoneType' object has no attribute 'strip'" >>
                     ELSE Tail(llm_log[i])),
     iteration |-> i]

\* C26: when the model-call function raises, or its response cannot be
\* parsed, in an iteration of ReActPlanner.plan, nothing escapes plan: an
\* observation step with the error text is appended for that iteration and
\* the loop goes on up to the bound; plan raises only when it is called
\* without a model-call function, before any step or model call.
C26_ModelFailureIsObservation ==
    /\ \A i \in DOMAIN llm_log :
        CallFailed(i) =>
            /\ ~ raised
            /\ \E j \in DOMAIN steps : steps[j] = ErrorObservation(i)
            /\ (i = Len(llm_log) /\ i < max_iterations) =>
                    (pc = "react" /\ plan = Nil)
            /\ (i = Len(llm_log) /\ i = max_iterations) =>
                    /\ pc = "returned"
                    /\ plan # Nil
                    /\ plan.status = "max_iterations_reached"
                    /\ plan.steps = steps
    /\ raised <=> pc = "raised"
    /\ raised => (llm_log = << >> /\ steps = << >> /\ plan = Nil)

\* the first model call raised, the second returned None, and plan returned
\* both observations
C26_Witness ==
    /\ pc = "returned"
    /\ Len(llm_log) = 2
    /\ IsRaise(llm_log[1])
    /\ llm_log[2] = None
    /\ Len(steps) = 2
    /\ steps[1] = ErrorObservation(1)
    /\ steps[2] = ErrorObservation(2)

\* every action step of the trace has an observation step right after it,
\* and an observation that follows that one belongs to a later iteration
ActionsObserved ==
    \A i \in DOMAIN steps :
        steps[i].type = "action" =>
            /\ i + 1 \in DOMAIN steps
            /\ steps[i + 1].type = "observation"
            /\ (i + 2 \in DOMAIN steps /\ steps[i + 2].type = "observation")
                    => steps[i + 2].iteration > steps[i + 1].iteration

\* the iteration that appends an action step appends its observation with
\* it, numbered as that iteration, after one model call
ObservedInSameIteration ==
    \A i \in DOMAIN steps' :
        (i > Len(steps) /\ steps'[i].type = "action") =>
            /\ i = Len(steps) + 1
            /\ Len(steps') = Len(steps) + 2
            /\ steps'[i + 1].type = "observation"
            /\ steps'[i + 1].iteration = iteration + 1
            /\ iteration' = iteration + 1
            /\ Len(llm_log') = Len(llm_log) + 1

\* C27: in every trace of ReActPlanner.plan each action step is followed at
\* once by exactly one observation step of the same iteration, and the
\* model is not called again before that observation has been appended.
C27_ActionThenObservation ==
    [] ActionsObserved /\ [][ObservedInSameIteration]_vars

\* two iterations each appended an action and its observation, the first
\* for a tool nobody registered
C27_Witness ==
    /\ pc = "returned"
    /\ Len(steps) = 4
    /\ steps[1].type = "action"
    /\ steps[1].action = << "missing" >>
    /\ steps[2].type = "observation"
    /\ steps[3].type = "action"
    /\ steps[4].type = "observation"

\* the action steps of the trace
ActionSteps == SelectSeq(steps, LAMBDA st : st.type = "action")

\* C28 as stated: the trace grows by exactly one step per iteration, so its
\* length is the number of iterations executed.
C28_OneStepPerIteration ==
    /\ Len(steps) = iteration
    /\ (plan # Nil /\ pc = "returned") => Len(plan.steps) = plan.iterations

\* the trace holds one step per iteration executed and one more for every
\* action step, and the returned plan reports those iterations
TraceLength ==
    /\ iteration = Len(llm_log)
    /\ Len(steps) = iteration + Len(ActionSteps)
    /\ (plan # Nil /\ pc = "returned") =>
            /\ plan.steps = steps
            /\ plan.iterations = iteration

\* a step of the call keeps the trace and appends one step to it, or two
\* when the first of them is an action step
AppendOnly ==
    /\ Len(steps') >= Len(steps)
    /\ SubSeq(steps', 1, Len(steps)) = steps
    /\ steps' # steps =>
            /\ iteration' = iteration + 1
            /\ Len(steps') = Len(steps)
                    + (IF steps'[Len(steps) + 1].type = "action"
                       THEN 2 ELSE 1)

\* C28 amended: the ReAct trace is append-only and grows in every
\* iteration by one step, or by two (the action step and its observation)
\* when the step of the iteration is an action; the length of the returned
\* trace is the number of iterations executed plus the number of action
\* steps.
C28_TraceGrowsPerIteration == [] TraceLength /\ [][AppendOnly]_vars

\* a returned trace of three steps made in two iterations
C28_Witness ==
    /\ pc = "returned"
    /\ plan.iterations = 2
    /\ Len(plan.steps) = 3
    /\ plan.steps[1].type = "action"
    /\ plan.steps[3].type = "thought"

\* an action step whose tool has an implementation and whose Action Input
\* is there and is no JSON text
RawInput(st) ==
    /\ st.type = "action"
    /\ Get(st, "input", << >>) # << >>
    /\ json_loads(Get(st, "input", << >>)).kind = "error"
    /\ \E n \in ToolKeys(tool_map, st.action) :
            "function" \in DOMAIN tool_map[n]

\* C29 as stated: when the Action Input of an action step does not parse as
\* JSON, the tool is still invoked with the raw string as its query argument:
\* the arguments of the call bind, and the observation is what the tool did.
C29_RawInputStillInvokes ==
    \A i \in 1..(Len(steps) - 1) :
        RawInput(steps[i]) =>
            /\ steps[i + 1].type = "observation"
            /\ steps[i + 1].content #
                    << "Error executing " >> \o steps[i].action
                        \o << ": ", "TypeError" >>

\* an iteration of CoTPlanner.plan made a second model call, the reflection
\* call
ReflectionCalled == Len(llm_log') = Len(llm_log) + 2

\* what the reflection call of the iteration did
ReflectionText == llm_log'[Len(llm_log) + 2]

\* the iteration produced a reasoning step at an index that is not zero and
\* is divisible by 3, with reflection enabled
ReflectionDue ==
    /\ enable_reflection
    /\ iteration > 0
    /\ iteration % 3 = 0
    /\ steps'[Len(steps) + 1].type = "reasoning"

\* the reflection call returned a text that is not blank
ReflectionAnswered ==
    /\ ReflectionCalled
    /\ ~ IsRaise(ReflectionText)
    /\ ReflectionText # None
    /\ Strip(ReflectionText) # << >>

\* with reflection disabled there is one model call per iteration and no
\* reflection step in the trace
NoReflectionWhenUnset ==
    ~ enable_reflection =>
        /\ Len(llm_log) = iteration
        /\ \A i \in 1..Len(steps) : steps[i].type # "reflection"

\* the reflection call is made in the iterations named, and a reflection
\* step follows the reasoning step of each of them
ReflectionAlwaysAppended ==
    iteration' = iteration + 1 =>
        /\ ReflectionCalled <=> ReflectionDue
        /\ ReflectionCalled =>
                /\ Len(steps') = Len(steps) + 2
                /\ steps'[Len(steps')].type = "reflection"

\* C30 as stated: with enable_reflection set, a reflection call is made in
\* exactly the iterations that produced a reasoning step at an index that is
\* not zero and is divisible by 3, and its text is appended as a reflection
\* step right after that reasoning step; with enable_reflection unset there
\* is no reflection call and no reflection step.
C30_ReflectionEveryThird ==
    [] NoReflectionWhenUnset /\ [][ReflectionAlwaysAppended]_vars

\* the reflection call is made in the iterations named; its trimmed text is
\* appended as a reflection step when it is not blank, and nothing is
\* appended for it otherwise
ReflectionAppendedIfAnswered ==
    iteration' = iteration + 1 =>
        /\ Len(llm_log') \in { Len(llm_log) + 1, Len(llm_log) + 2 }
        /\ ReflectionCalled <=> ReflectionDue
        /\ SubSeq(steps', 1, Len(steps)) = steps
        /\ IF ReflectionAnswered
           THEN /\ Len(steps') = Len(steps) + 2
                /\ steps'[Len(steps')] =
                        [step |-> iteration + 1, type |-> "reflection",
                         content |-> Strip(ReflectionText)]
           ELSE /\ Len(steps') = Len(steps) + 1
                /\ steps'[Len(steps')].type # "reflection"

\* C30 amended: with enable_reflection set, a reflection call is made in
\* exactly the iterations that produced a reasoning step (not a conclusion,
\* not an error step) at an index that is not zero and is divisible by 3;
\* when the call returns a text that is not blank, the trimmed text is
\* appended as a reflection step right after that reasoning step, and when
\* the call fails or returns a blank text no step is appended for it; with
\* enable_reflection unset there is no reflection call and no reflection
\* step.
C30_ReflectionIfAnswered ==
    [] NoReflectionWhenUnset /\ [][ReflectionAppendedIfAnswered]_vars

\* the fourth iteration made a reflection call and its text is in the trace
C30_Witness ==
    /\ enable_reflection
    /\ iteration = 4
    /\ Len(llm_log) = 5
    /\ Len(steps) = 5
    /\ steps[4].type = "reasoning"
    /\ steps[5] = [step |-> 4, type |-> "reflection", content |-> << "fine" >>]

(* More properties of CoTPlanner and of the agent's memory *)

\* the steps of a trace that are no reflection steps
NonReflection(stps) == SelectSeq(stps, LAMBDA st : st.type # "reflection")

\* the prompt built after a reasoning step lists the last three steps of
\* the trace that are no reflection steps
ListsLastThree ==
    (/\ iteration' = iteration + 1
     /\ steps'[Len(steps) + 1].type = "reasoning") =>
        /\ prompt'.kind = "next"
        /\ prompt'.listed = LastN(NonReflection(steps'), 3)

\* C31 as stated: after a reasoning step, the prompt for the next model call
\* lists the last 3 non-reflection steps of the trace (all of them when there
\* are fewer than 3), also when a reflection step is among the most recent
\* entries of the trace.
C31_PromptListsLastThree == [][ListsLastThree]_vars

\* the model call of an iteration raised
StepCallFailed ==
    /\ iteration' = iteration + 1
    /\ IsRaise(llm_log'[Len(llm_log) + 1])

\* a failed model call leaves one error step with the error text, nothing is
\* raised, and the loop goes on unless the steps are used up
ErrorStepAndOn ==
    StepCallFailed =>
        /\ steps' = Append(steps,
                [step |-> iteration + 1, type |-> "error",
                 content |-> << "Error: " >>
                             \o ErrText(llm_log'[Len(llm_log) + 1])])
        /\ Len(llm_log') = Len(llm_log) + 1
        /\ ~ raised'
        /\ IF iteration + 1 < max_iterations
           THEN pc' = "cot" /\ plan' = Nil
           ELSE /\ pc' = "returned"
                /\ plan'.status = "max_steps_reached"
                /\ plan'.total_steps = max_iterations
                /\ plan'.reasoning_steps = steps'

\* C32: when the model call of a CoT step fails, plan does not raise: it
\* appends one step of kind error with the error text of that iteration and
\* goes on with the next iteration, up to max_steps.
C32_FailedStepIsErrorStep == [][ErrorStepAndOn]_vars

\* a failed first call, then a reasoning step
C32_Witness ==
    /\ Len(steps) >= 2
    /\ steps[1] = [step |-> 1, type |-> "error",
                   content |-> << "Error: ", "connection error" >>]
    /\ steps[2].type = "reasoning"

\* a call of process comes to its end
CallEnds == pc # "done" /\ pc' = "done"

\* the entries of long-term memory folded into a context
Retrieved(ctx) == Cardinality({ i \in DOMAIN ctx : ctx[i] = "<conversation>" })

\* the entries of the store filed under a session
FiledUnder(store, sid) == SelectSeq(store, LAMBDA e : e.session_id = sid)

\* a call without a session id neither reads nor writes long-term memory
NoSessionNoLongTerm ==
    (pc' # "idle" /\ request'.session_id = None) =>
        /\ long_term' = long_term
        /\ "context" \in DOMAIN request' => Retrieved(request'.context) = 0

\* a call with a session id retrieves at most 3 entries, all of them filed
\* under that session
AtMostThreeRetrieved ==
    (pc' # "idle" /\ "context" \in DOMAIN request') =>
        /\ Retrieved(request'.context) <= 3
        /\ Retrieved(request'.context)
                <= Len(FiledUnder(long_term, request'.session_id))

\* the store changes only at the end of a call, by one entry that holds the
\* short-term messages under the session id of the call
StoresTheMessages ==
    long_term' # long_term =>
        /\ CallEnds
        /\ request'.session_id # None
        /\ long_term' = Append(long_term,
                               [session_id |-> request'.session_id,
                                messages |-> messages'])

PersistsOnSuccess ==
    (CallEnds /\ request'.session_id # None) =>
        IF /\ response'.success
           /\ agent.use_memory
           /\ agent.ltm_enabled
           /\ request'.store_ok
        THEN /\ long_term' = Append(long_term,
                                    [session_id |-> request'.session_id,
                                     messages |-> messages'])
             /\ messages' # << >>
             /\ messages'[Len(messages')].role = "assistant"
             /\ messages'[Len(messages')].content = response'.answer
        ELSE long_term' = long_term

Registration == << "local", "search", "cloud", "snowflake" >>
Rank(name) == CHOOSE i \in DOMAIN Registration : Registration[i] = name

\* a sequence of agent names that follows the order of registration
InRegistrationOrder(names) ==
    \A i, j \in DOMAIN names : i < j => Rank(names[i]) < Rank(names[j])

\* the agents are called in the order of registration, and the results
\* recorded are those of the agents called so far
CalledInOrder ==
    pc \in { "agents", "synthesize", "done" } =>
        /\ InRegistrationOrder(selected)
        /\ Len(calls) <= Len(selected)
        /\ \A i \in DOMAIN calls : calls[i].agent = selected[i]
        /\ DOMAIN agent_responses = { calls[i].agent : i \in DOMAIN calls }

\* the sections of the synthesis prompt are those of the agents that
\* succeeded, in the order of their calls
SectionsInOrder ==
    (pc = "done" /\ prompt.kind = "synthesis") =>
        /\ InRegistrationOrder([i \in DOMAIN prompt.sections |->
                                    prompt.sections[i].agent])
        /\ \A i \in DOMAIN prompt.sections :
                /\ agent_responses[prompt.sections[i].agent].success
                /\ prompt.sections[i].answer =
                        agent_responses[prompt.sections[i].agent].answer
        /\ Len(prompt.sections) =
                Cardinality({ n \in DOMAIN agent_responses :
                                agent_responses[n].success })

\* a turn of the loop calls one agent, the next of the chosen ones, and
\* records its result before the loop goes on; the synthesis starts when
\* all are recorded
OneAtATime ==
    /\ calls' # calls /\ calls # << >> =>
            /\ Len(calls') = Len(calls) + 1
            /\ SubSeq(calls', 1, Len(calls)) = calls
            /\ calls'[Len(calls')].agent \in DOMAIN agent_responses'
            /\ \A n \in DOMAIN agent_responses :
                    agent_responses'[n] = agent_responses[n]
    /\ pc' = "synthesize" => Len(calls') = Len(selected')

AggregatorsBuilt ==
    Cardinality({ i \in DOMAIN orchestrator.built :
                    orchestrator.built[i] = "aggregator" })

\* an advanced request that passed the credential check has returned
AdvancedServed ==
    /\ pc = "done"
    /\ NamedTier = "advanced"
    /\ orchestrator.openai_api_key

\* C35 as stated: over any sequence of requests on one orchestrator the
\* aggregator is constructed at most once, on the first advanced request
\* that passes the credential check, and that instance serves every later
\* advanced request; requests on other tiers never construct it.
C35_AggregatorBuiltOnFirst ==
    /\ AggregatorsBuilt <= 1
    /\ AdvancedServed =>
            /\ orchestrator.aggregator_agent
            /\ AggregatorsBuilt = 1
    /\ (pc = "done" /\ NamedTier # "advanced") =>
            \A i \in DOMAIN ran : ran[i] # "AggregatorAgent"

\* at most one aggregator is built, and the orchestrator holds it
AtMostOneAggregator ==
    /\ AggregatorsBuilt <= 1
    /\ orchestrator.aggregator_agent = (AggregatorsBuilt = 1)

\* a request builds the aggregator only on the advanced tier, past the
\* credential check, when the orchestrator holds none; when it holds one,
\* an advanced request asks that one and builds nothing; a construction
\* that fails leaves the orchestrator without one
BuiltWhenMissing ==
    orchestrator'.requests = orchestrator.requests + 1 =>
        LET advanced == /\ TierOf(request'.tier) = "advanced"
                        /\ orchestrator.openai_api_key
            tried == \E i \in DOMAIN ran' : ran'[i] = "AggregatorAgent"
        IN  /\ tried = (advanced /\ ~ orchestrator.aggregator_agent)
            /\ (advanced /\ orchestrator.aggregator_agent) =>
                    /\ ran' = << "aggregator.process" >>
                    /\ orchestrator'.built = orchestrator.built
                    /\ orchestrator'.aggregator_agent
            /\ (tried /\ request'.run.construct = "ok") =>
                    /\ ran' = << "AggregatorAgent", "aggregator.process" >>
                    /\ orchestrator'.built =
                            Append(orchestrator.built, "aggregator")
                    /\ orchestrator'.aggregator_agent
            /\ (tried /\ request'.run.construct = "raise") =>
                    /\ ran' = << "AggregatorAgent" >>
                    /\ ~ response'.success
                    /\ ~ orchestrator'.aggregator_agent
            /\ ~ advanced =>
                    /\ orchestrator'.aggregator_agent
                            = orchestrator.aggregator_agent
                    /\ AggregatorsBuilt' = AggregatorsBuilt

\* C35 amended: over any sequence of requests on one orchestrator the
\* aggregator is constructed with success at most once, on the first
\* advanced request that passes the credential check and whose construction
\* does not fail, and that instance serves every later advanced request;
\* an advanced request whose construction fails returns success = false
\* and leaves the next advanced request to construct it; requests on other
\* tiers never construct it.
C35_AggregatorBuiltOnce ==
    [] AtMostOneAggregator /\ [][BuiltWhenMissing]_vars

\* the second advanced request is served by the aggregator the first built
C35_Witness ==
    /\ AdvancedServed
    /\ orchestrator.requests = 2
    /\ orchestrator.built = << "aggregator" >>
    /\ ran = << "aggregator.process" >>
    /\ response.success

-----------------------------------------------------------------------------
(* More properties of BaseAgent.process and of ShortTermMemory, checked    *)
(* under Spec                                                              *)

\* C36 as stated: in the direct path process calls the model once, with
\* the system message followed by the last 5 messages of short-term memory,
\* and the last of those messages is the user message that holds the query
\* of the call, whatever the length of the query and of the history.
C36_HistoryEndsWithQuery ==
    (pc = "done" /\ request.direct_call) =>
        /\ llm_log # << >>
        /\ agent.kind # "snowflake" => Len(llm_log) = 1
        /\ Len(request.history) <= HistoryWindow
        /\ request.history # << >>
        /\ request.history[Len(request.history)].role = "user"
        /\ request.history[Len(request.history)].content = request.query

\* the call before this one ended with a plan that holds no answer: the
\* assistant message it left has no content
PreviousPlanHadNoAnswer ==
    \E i \in DOMAIN messages :
        /\ messages[i].role = "assistant"
        /\ messages[i].content = None
        /\ messages[i].timestamp = agent.calls - 1

\* C37 as stated: after a process call whose planner ended without a final
\* step, the next process call on the same agent with memory, the model
\* returning a final answer at once, returns success = true with that
\* answer.
C37_ServesAfterNoAnswer ==
    (/\ pc = "done"
     /\ agent.use_memory
     /\ agent.planning = "react"
     /\ max_iterations >= 1
     /\ PreviousPlanHadNoAnswer
     /\ \A i \in DOMAIN llm_log : llm_log[i] = << FA, WS, "x" >>) =>
        /\ response.success
        /\ response.answer = << "x" >>

\* the tokens of the stored messages that hold a text
RECURSIVE TextTokens(_)
TextTokens(msgs) ==
    IF msgs = << >> THEN 0
    ELSE (IF Head(msgs).content = None THEN 0
          ELSE count_tokens(Head(msgs).content))
         + TextTokens(Tail(msgs))

\* the stored messages are in the order they were added: by call, and the
\* user message of a call before its assistant message
InInsertionOrder(msgs) ==
    \A i, j \in DOMAIN msgs :
        i < j =>
            \/ msgs[i].timestamp < msgs[j].timestamp
            \/ /\ msgs[i].timestamp = msgs[j].timestamp
               /\ msgs[i].role = "user"
               /\ msgs[j].role = "assistant"

\* C38 as stated: after every add_message the stored messages number at
\* most max_messages, their tokens total at most max_tokens, and they are
\* the last of the messages ever added, in insertion order.
C38_MemoryWithinLimits ==
    /\ Len(messages) <= MaxMessages
    /\ TextTokens(messages) <= MaxTokens
    /\ InInsertionOrder(messages)

\* a process call fails because the model call of the direct path failed
DirectCallFailed ==
    /\ pc = "idle"
    /\ pc' = "done"
    /\ request'.direct_call
    /\ ~ response'.success
    /\ IsRaise(llm_log'[Len(llm_log')])

\* the failed call changes the state by the user message only
UserMessageStays ==
    DirectCallFailed =>
        /\ agent.use_memory =>
                messages' = Append(messages,
                                   [role |-> "user",
                                    content |-> request'.query,
                                    timestamp |-> agent'.calls])
        /\ long_term' = long_term
        /\ tools' = tools
        /\ tool_functions' = tool_functions

\* memory ends with a user message that got no answer, and the next call
\* of the direct path sends it to the model
UnansweredIsSent ==
    (/\ pc = "idle"
     /\ pc' = "done"
     /\ request'.direct_call
     /\ messages # << >>
     /\ messages[Len(messages)].role = "user"
     /\ \A i \in DOMAIN messages : messages[i].content # None) =>
        \E i \in DOMAIN request'.history :
            request'.history[i] = messages[Len(messages)]

\* C39 as stated: when process returns success = false because the model
\* call of the direct path failed, the only change of state is the user
\* message appended to short-term memory: no assistant message is recorded,
\* nothing is written to long-term memory, and the unanswered user message
\* is part of the history sent to the model on the next call.
C39_DirectFailureKeepsUserMessage ==
    [][UserMessageStays /\ UnansweredIsSent]_vars

=============================================================================
